---- MODULE Spec2Model ----
(***************************************************************************)
(* Order lifecycle of the trading engine (src/core/trading_engine.py)      *)
(* running against the paper-trading gateway (src/core/simulator.py) and   *)
(* the position ledger (src/core/position_manager.py).                     *)
(*                                                                         *)
(* Numbers.  The program computes with floats; the model computes with     *)
(* fixed-point integers and exact integer comparisons:                     *)
(*   - a price is an integer number of price ticks; a price the engine    *)
(*     computes (p * 0.999, p * 0.995, the required sell price) is rounded *)
(*     to a whole tick;                                                    *)
(*   - a quote (USDT) amount is an integer number of 1/UsdtScale USDT;     *)
(*   - a base (BTC) amount is an integer number of                         *)
(*     1/(UsdtScale * BtcPerUsdt) BTC;                                     *)
(*   - a rate (fee, margin) is an integer number of 1/1000 (per mille).    *)
(* A failed price fetch (None) is the price 0: the code tests             *)
(* "if not current_price".                                                 *)
(*                                                                         *)
(* Threads.  Each worker thread runs _trading_loop one statement group at  *)
(* a time (wpc); the control thread issues the public calls, of which      *)
(* force_stop takes several steps (cpc).                                   *)
(***************************************************************************)
EXTENDS Integers, Naturals, Sequences, FiniteSets, TLC

\* ---------------------------------------------------------------- bounds
\* Order ids the gateway may issue in one run of the model.
MaxOrders == 4
\* Order ids it may issue in a run that goes on after a graceful stop.
MaxRestartOrders == 7
\* Order ids it may issue while more than one worker thread is alive.
MaxOverlapOrders == 3
\* Worker threads that may exist at once (thread slots).
MaxWorkers == 2

\* ------------------------------------------------------ program constants
\* Fixed-point resolution (units of the model, not of the program).
UsdtScale == 10 * 100
BtcPerUsdt == 10 * 100
InitialBalance == 50 * UsdtScale
MinTradeAmount == 10 * UsdtScale
BalanceBuffer == 5 * UsdtScale
FeeRate == 1
BuyTriggerPermille == 5
DefaultMargin == 5
InitialFractionPct == 95
InitialLimitDiscount == 1

\* The price feed: three representative prices (in ticks): 10000, the price
\* 0.1 % below it (what an initial limit buy placed at 10000 asks), and a
\* price 1 % above it (beyond the required sell price of a buy at either).
Prices == {9990, 10000, 10100}
NoPrice == 0
PriceAnswers == Prices \cup {NoPrice}
\* The answers to a price fetch that only the market order type makes.
MarketPriceAnswers(type) == IF type = "market" THEN PriceAnswers ELSE {NoPrice}

Workers == 1..MaxWorkers
OrderIds == 1..MaxOrders
NoOrder == 0
NoWorker == 0

\* ----------------------------------------------------------------- helpers
Min(a, b) == IF a <= b THEN a ELSE b

CeilDiv(a, b) == (a + b - 1) \div b

RECURSIVE SortedSeq(_)
SortedSeq(S) ==
    IF S = {} THEN <<>>
    ELSE LET m == CHOOSE x \in S : \A y \in S : x <= y
         IN <<m>> \o SortedSeq(S \ {m})

Range(s) == {s[i] : i \in DOMAIN s}

RECURSIVE RemoveFirst(_, _)
RemoveFirst(s, x) ==
    IF s = <<>> THEN <<>>
    ELSE IF Head(s) = x THEN Tail(s)
    ELSE <<Head(s)>> \o RemoveFirst(Tail(s), x)

\* dict with key k removed / added
DictDel(d, k) == [x \in (DOMAIN d) \ {k} |-> d[x]]
DictPut(d, k, v) == [x \in (DOMAIN d) \cup {k} |-> IF x = k THEN v ELSE d[x]]
EmptyDict == [x \in {} |-> 0]

\* ------------------------------------------------------- utils/helpers.py
\* calculate_required_sell_price: buy/(1-fb) * (1+m) / (1-fs), as a price in
\* ticks rounded up: for an integer price p,  p >= target  is decided exactly.
\* The quotient is taken by long division to stay within machine integers.
calculate_required_sell_price(buy_price, margin) ==
    LET N == buy_price * (1000 + margin)
        D == (1000 - FeeRate) * (1000 - FeeRate)
    IN (N \div D) * 1000 + CeilDiv((N % D) * 1000, D)

\* get_minimum_viable_profit_margin = (fb + fs)/(1 - fs);  validate_profit_margin
\* rejects  desired < minimum_viable,  decided by cross-multiplication.
MarginNeverTooLow(margin) == FALSE
MarginTooLow(margin) == margin * (1000 - FeeRate) < (FeeRate + FeeRate) * 1000

\* ------------------------------------------------------- core/simulator.py
\* The simulator object: balances, orders (by id), pending_orders (ids of
\* resting limit orders, in placement order) and order_id_counter.
SimInit ==
    [balances |-> [USDT |-> InitialBalance, BTC |-> 0],
     orders |-> EmptyDict,
     pending_orders |-> <<>>,
     order_id_counter |-> 1]

calculate_fees(amount) == (amount * FeeRate) \div 1000

\* amount_usdt / price  (quote amount to base amount)
ToBtc(amount_usdt, price) == (amount_usdt * BtcPerUsdt) \div price
\* amount * price  (base amount to quote amount)
ToUsdt(amount, price) == (amount * price) \div BtcPerUsdt

\* An operation of the simulator returns the new simulator and the id of the
\* order it made, NoOrder for the code's None.
SimResult(s, id) == [sim |-> s, order |-> id]

AddOrder(s, o) ==
    [s EXCEPT !.orders = DictPut(s.orders, s.order_id_counter, o),
              !.order_id_counter = s.order_id_counter + 1]

simulate_market_buy(s, amount_usdt, current_price) ==
    IF current_price = NoPrice THEN SimResult(s, NoOrder)
    ELSE IF s.balances.USDT < amount_usdt THEN SimResult(s, NoOrder)
    ELSE LET fees == calculate_fees(amount_usdt)
             btc_amount == ToBtc(amount_usdt - fees, current_price)
             s1 == [s EXCEPT !.balances.USDT = @ - amount_usdt,
                             !.balances.BTC = @ + btc_amount]
             o == [type |-> "market", side |-> "buy", amount |-> btc_amount,
                   price |-> current_price, status |-> "closed"]
         IN SimResult(AddOrder(s1, o), s.order_id_counter)

simulate_limit_buy(s, amount, price) ==
    IF s.balances.USDT < ToUsdt(amount, price) THEN SimResult(s, NoOrder)
    ELSE LET o == [type |-> "limit", side |-> "buy", amount |-> amount,
                   price |-> price, status |-> "open"]
             s1 == [s EXCEPT !.pending_orders = Append(@, s.order_id_counter)]
         IN SimResult(AddOrder(s1, o), s.order_id_counter)

simulate_conditional_buy(s, amount_usdt, trigger_price) ==
    simulate_limit_buy(s, ToBtc(amount_usdt, trigger_price), trigger_price)

\* A gateway that sells at market without looking at the balance.
simulate_market_sell_unchecked(s, amount, current_price) ==
    IF current_price = NoPrice THEN SimResult(s, NoOrder)
    ELSE LET gross_usdt == ToUsdt(amount, current_price)
             s1 == [s EXCEPT !.balances.BTC = @ - amount,
                             !.balances.USDT = @ + gross_usdt - calculate_fees(gross_usdt)]
             o == [type |-> "market", side |-> "sell", amount |-> amount,
                   price |-> current_price, status |-> "closed"]
         IN SimResult(AddOrder(s1, o), s.order_id_counter)

simulate_market_sell(s, amount, current_price) ==
    IF current_price = NoPrice THEN SimResult(s, NoOrder)
    ELSE IF s.balances.BTC < amount THEN SimResult(s, NoOrder)
    ELSE LET gross_usdt == ToUsdt(amount, current_price)
             net_usdt == gross_usdt - calculate_fees(gross_usdt)
             s1 == [s EXCEPT !.balances.BTC = @ - amount,
                             !.balances.USDT = @ + net_usdt]
             o == [type |-> "market", side |-> "sell", amount |-> amount,
                   price |-> current_price, status |-> "closed"]
         IN SimResult(AddOrder(s1, o), s.order_id_counter)

simulate_limit_sell(s, amount, price) ==
    IF s.balances.BTC < amount THEN SimResult(s, NoOrder)
    ELSE LET o == [type |-> "limit", side |-> "sell", amount |-> amount,
                   price |-> price, status |-> "open"]
             s1 == [s EXCEPT !.pending_orders = Append(@, s.order_id_counter)]
         IN SimResult(AddOrder(s1, o), s.order_id_counter)

simulate_conditional_sell(s, amount, target_price) ==
    simulate_limit_sell(s, amount, target_price)

\* get_order_status: the order's status, "none" for an id the simulator
\* does not hold.
get_order_status(s, order_id) ==
    IF order_id \in DOMAIN s.orders THEN s.orders[order_id].status ELSE "none"

\* calculate_average_fill_price: the price of a closed order, else None.
calculate_average_fill_price(s, order_id) ==
    IF get_order_status(s, order_id) = "closed"
    THEN s.orders[order_id].price ELSE NoPrice

CanCancel(s, order_id) == get_order_status(s, order_id) = "open"

\* A gateway that cancels an order whatever its status.
cancel_order_any(s, order_id) ==
    [s EXCEPT !.orders[order_id].status = "cancelled",
              !.pending_orders = RemoveFirst(@, order_id)]

cancel_order(s, order_id) ==
    IF CanCancel(s, order_id)
    THEN [s EXCEPT !.orders[order_id].status = "cancelled",
                   !.pending_orders = RemoveFirst(@, order_id)]
    ELSE s

fill_order_forced(s, id, fill_price) ==
    LET o == s.orders[id]
        gross == ToUsdt(o.amount, fill_price)
        fees == calculate_fees(gross)
        s1 == [s EXCEPT !.orders[id].status = "closed",
                        !.orders[id].price = fill_price,
                        !.pending_orders = RemoveFirst(@, id)]
    IN IF o.side = "buy"
       THEN [s1 EXCEPT !.balances.USDT = @ - (gross + fees),
                       !.balances.BTC = @ + o.amount]
       ELSE [s1 EXCEPT !.balances.BTC = @ - o.amount,
                       !.balances.USDT = @ + (gross - fees)]

\* _fill_order: fills at fill_price if the balance allows, else leaves the
\* order as it is.
fill_order(s, id, fill_price) ==
    LET o == s.orders[id]
        gross == ToUsdt(o.amount, fill_price)
        fees == calculate_fees(gross)
    IN IF o.side = "buy"
       THEN IF s.balances.USDT >= gross + fees
            THEN [s EXCEPT !.balances.USDT = @ - (gross + fees),
                           !.balances.BTC = @ + o.amount,
                           !.orders[id].status = "closed",
                           !.orders[id].price = fill_price,
                           !.pending_orders = RemoveFirst(@, id)]
            ELSE s
       ELSE IF s.balances.BTC >= o.amount
            THEN [s EXCEPT !.balances.BTC = @ - o.amount,
                           !.balances.USDT = @ + (gross - fees),
                           !.orders[id].status = "closed",
                           !.orders[id].price = fill_price,
                           !.pending_orders = RemoveFirst(@, id)]
            ELSE s

ShouldFill(o, current_price) ==
    /\ o.type = "limit"
    /\ \/ o.side = "buy" /\ current_price <= o.price
       \/ o.side = "sell" /\ current_price >= o.price

\* check_and_fill_orders: one pass over list(pending_orders) at current_price.
RECURSIVE FillPass(_, _, _)
FillPass(s, ids, current_price) ==
    IF ids = <<>> THEN s
    ELSE LET id == Head(ids)
             s1 == IF get_order_status(s, id) = "open"
                      /\ ShouldFill(s.orders[id], current_price)
                   THEN fill_order(s, id, current_price)
                   ELSE s
         IN FillPass(s1, Tail(ids), current_price)

check_and_fill_orders(s, current_price) ==
    IF current_price = NoPrice THEN s
    ELSE FillPass(s, s.pending_orders, current_price)

\* -------------------------------------------------- core/position_manager.py
\* The ledger: objs holds every Position object ever made (a position is
\* named by its index there), positions and closed_positions are the two
\* lists.  timestamp is the clock reading get_timestamp() gave when the
\* position was made; exit_timestamp, a new reading at every close, is kept
\* as the number of readings the position has had (0 for None).  src is a
\* history field: the id of the buy order the position was made for.
PmInit == [objs |-> <<>>, positions |-> <<>>, closed_positions |-> <<>>]

NoPosition == 0

\* A ledger that records every new position with no amount.
add_position_empty(pm, buy_price, amount, src, timestamp) ==
    [pm EXCEPT !.objs = Append(@, [buy_price |-> buy_price, amount |-> 0,
                                   status |-> "open", exit_price |-> NoPrice,
                                   exit_timestamp |-> 0,
                                   timestamp |-> timestamp, src |-> src]),
               !.positions = Append(@, Len(pm.objs) + 1)]

add_position(pm, buy_price, amount, src, timestamp) ==
    [pm EXCEPT !.objs = Append(@, [buy_price |-> buy_price, amount |-> amount,
                                   status |-> "open", exit_price |-> NoPrice,
                                   exit_timestamp |-> 0,
                                   timestamp |-> timestamp, src |-> src]),
               !.positions = Append(@, Len(pm.objs) + 1)]

\* get_timestamp() as the engine's threads read it for a new position: the
\* positions of a run are made seconds apart (a file is written and an order
\* placed between two of them), each with a later reading than the one before.
get_timestamp(pm) == Len(pm.objs) + 1

NewPosition(pm) == Len(pm.objs) + 1

\* amount_sold = None
NoAmount == -1

\* A close that ignores amount_sold and always closes in full.
Position_close_fully(o, exit_price, amount_sold) ==
    [o EXCEPT !.exit_price = exit_price,
              !.exit_timestamp = @ + 1,
              !.status = "closed"]

\* Position.close_position: the exit data are written; the status is closed
\* when amount_sold (by default the whole amount) covers the amount, else
\* partial with the amount reduced.
Position_close_position(o, exit_price, amount_sold) ==
    LET sold == IF amount_sold = NoAmount THEN o.amount ELSE amount_sold
    IN [o EXCEPT !.exit_price = exit_price,
                 !.exit_timestamp = @ + 1,
                 !.status = IF sold >= o.amount THEN "closed" ELSE "partial",
                 !.amount = IF sold >= o.amount THEN @ ELSE @ - sold]

\* PositionManager.close_position: the Position is closed or partly closed,
\* and when its status is closed it is moved from positions to
\* closed_positions; list.remove raises ValueError when it is not in
\* positions (raised), after the object has been changed.
close_position_sold(pm, p, exit_price, amount_sold) ==
    LET objs1 == [pm.objs EXCEPT
                     ![p] = Position_close_position(@, exit_price, amount_sold)]
    IN IF objs1[p].status # "closed"
       THEN [pm |-> [pm EXCEPT !.objs = objs1], raised |-> FALSE]
       ELSE IF p \in Range(pm.positions)
       THEN [pm |-> [objs |-> objs1,
                     positions |-> RemoveFirst(pm.positions, p),
                     closed_positions |-> Append(pm.closed_positions, p)],
             raised |-> FALSE]
       ELSE [pm |-> [pm EXCEPT !.objs = objs1], raised |-> TRUE]

\* PositionManager.close_position with amount_sold omitted, as the engine
\* calls it.
close_position(pm, p, exit_price) == close_position_sold(pm, p, exit_price, NoAmount)

\* get_last_buy_price: sorted(self.positions, key=timestamp, reverse=True)[0],
\* a stable sort: of the open positions with the greatest timestamp, the one
\* that comes first in the list; None (0) without an open position.
get_last_buy_price(pm) ==
    IF pm.positions = <<>> THEN NoPrice
    ELSE LET stamp(i) == pm.objs[pm.positions[i]].timestamp
             latest == CHOOSE i \in DOMAIN pm.positions :
                          /\ \A j \in DOMAIN pm.positions : stamp(j) <= stamp(i)
                          /\ \A j \in DOMAIN pm.positions :
                                 stamp(j) = stamp(i) => i <= j
         IN pm.objs[pm.positions[latest]].buy_price

\* should_buy_more:  current_price <= last_buy_price * (1 - trigger/100)
should_buy_more(pm, current_price) ==
    LET last_buy_price == get_last_buy_price(pm)
    IN IF last_buy_price = NoPrice THEN TRUE
       ELSE current_price * 1000 <= last_buy_price * (1000 - BuyTriggerPermille)

\* The open positions in the order of the list, as TradingBot keeps them.
OpenPositions(pm) == [i \in DOMAIN pm.positions |-> pm.objs[pm.positions[i]]]

\* The latest clock reading a position of the ledger was made at.
LastStamp(pm) ==
    IF pm.objs = <<>> THEN 0
    ELSE LET i == CHOOSE i \in DOMAIN pm.objs :
                     \A j \in DOMAIN pm.objs : pm.objs[j].timestamp <= pm.objs[i].timestamp
         IN pm.objs[i].timestamp

\* clear_all_positions: every open position is appended to closed_positions
\* as it is.
clear_all_positions(pm) ==
    [pm EXCEPT !.closed_positions = @ \o pm.positions, !.positions = <<>>]

\* ------------------------------------------------------------------ bot.py
BotMaxPositionCount == 10

\* TradingBot._get_last_buy_price over the bot's list of positions:
\* max(pos.buy_price for pos in self.positions), None (0) for an empty list.
bot_get_last_buy_price(positions) ==
    IF positions = <<>> THEN NoPrice
    ELSE LET i == CHOOSE i \in DOMAIN positions :
                     \A j \in DOMAIN positions :
                         positions[j].buy_price <= positions[i].buy_price
         IN positions[i].buy_price

\* TradingBot._should_buy_more
bot_should_buy_more(positions, current_price) ==
    LET last_buy_price == bot_get_last_buy_price(positions)
    IN IF Len(positions) >= BotMaxPositionCount THEN FALSE
       ELSE IF positions = <<>> THEN TRUE
       ELSE IF last_buy_price = NoPrice THEN TRUE
       ELSE current_price * 1000 <= last_buy_price * (1000 - BuyTriggerPermille)

\* ------------------------------------------------- core/trading_engine.py
VARIABLES
    state,               \* BotState: "stopped", "running", "stopping", "error"
    stop_event,          \* _stop_event is set
    pending_exit,
    order_type,          \* "limit" or "market"
    user_profit_margin,  \* per mille
    trading_thread,      \* _trading_thread: the worker last started, or NoWorker
    pending_buy_orders,  \* order id -> [trigger_price, amount_usdt]
    pending_sell_orders, \* order id -> [position, target_price]
    position_manager,
    simulator,
    wpc,                 \* per worker: where it is in _trading_loop
    wloc,                \* per worker: its local variables
    cpc,                 \* the control thread: where it is in its call
    cloc,                \* the control thread: its local variables
    ledger_applied,      \* history: per order id, ledger mutations reconciliation made for it
    last_sell,           \* history: the last market sell _execute_sell made
    fs_positions,        \* history: the ledger when the force_stop under way was called
    status,              \* get_status: the dict it has built so far
    status_seen,         \* history: the states passed since the get_status under way began
    call_ret,            \* history: the last start_trading or set_profit_margin call and its result
    ledger_call,         \* history: the last call made on the ledger or the gateway alone,
                         \* or the reset_bot calls that have returned
    skipped,             \* history: ids of the gateway's orders whose fill was skipped
    issued,              \* history: the order ids the gateway has issued when driven alone
    tick_mark,           \* history: per worker, order_id_counter when its tick began
                         \* (0 where ticks are not marked)
    sell_tries           \* history: where ticks are marked, the positions whose sell
                         \* order the engine asked the gateway for since a tick began

engine_vars == <<state, stop_event, pending_exit, order_type, user_profit_margin,
                 trading_thread>>
book_vars == <<pending_buy_orders, pending_sell_orders>>
thread_vars == <<wpc, wloc, cpc, cloc>>
hist_vars == <<ledger_applied, last_sell, fs_positions>>
obs_vars == <<status, status_seen, call_ret, ledger_call, issued, tick_mark, sell_tries, skipped>>
vars == <<engine_vars, book_vars, position_manager, simulator, thread_vars, hist_vars,
          obs_vars>>

LocInit ==
    [keys |-> <<>>, oid |-> NoOrder, amt |-> 0, posref |-> NoPosition,
     price |-> NoPrice, sells |-> <<>>, ret |-> FALSE, phase |-> "", why |-> ""]

CLocInit == [keys |-> <<>>]

NoSell == [made |-> FALSE, exit |-> FALSE, buy_price |-> 0, fill_price |-> 0,
           margin |-> 0]

NoStatus == [at |-> "none"]
NoCall == [op |-> "none", n |-> 0]

\* No call observed yet.
ObsInit ==
    /\ status = NoStatus
    /\ status_seen = {}
    /\ call_ret = NoCall
    /\ ledger_call = NoCall
    /\ issued = <<>>
    /\ skipped = {}
    /\ sell_tries = {}
    /\ tick_mark = [w \in Workers |-> 0]

Init ==
    /\ ObsInit
    /\ state = "stopped"
    /\ stop_event = FALSE
    /\ pending_exit = FALSE
    /\ order_type \in {"limit", "market"}
    /\ user_profit_margin = DefaultMargin
    /\ trading_thread = NoWorker
    /\ pending_buy_orders = EmptyDict
    /\ pending_sell_orders = EmptyDict
    /\ position_manager = PmInit
    /\ simulator = SimInit
    /\ wpc = [w \in Workers |-> "dead"]
    /\ wloc = [w \in Workers |-> LocInit]
    /\ cpc = "idle"
    /\ cloc = CLocInit
    /\ ledger_applied = [o \in OrderIds |-> 0]
    /\ last_sell = NoSell
    /\ fs_positions = PmInit

LiveWorkers == {w \in Workers : wpc[w] # "dead"}

\* What get_status reports of a state: the engine state, pending_exit, the
\* two balances, the number of open positions and of pending buy and sell
\* records.
Observation ==
    [state |-> state,
     pending_exit |-> pending_exit,
     USDT |-> simulator.balances.USDT,
     BTC |-> simulator.balances.BTC,
     count |-> Len(position_manager.positions),
     buy_orders |-> Cardinality(DOMAIN pending_buy_orders),
     sell_orders |-> Cardinality(DOMAIN pending_sell_orders)]

\* The control thread's positions inside get_status.
StatusPcs == {"gs_balances", "gs_positions", "gs_pending", "gs_return"}

\* A step of a worker while get_status is under way: the state it leads to is
\* one the call has passed.
Observe ==
    status_seen' = IF cpc \in StatusPcs
                   THEN status_seen \cup {Observation'}
                   ELSE status_seen

\* The id of a made order is one the model may issue: one that ledger_applied
\* has a count for and, with more than one worker alive (live), one up to
\* MaxOverlapOrders.
IssuableWith(r, live) ==
    \/ r.order = NoOrder
    \/ /\ r.order \in DOMAIN ledger_applied
       /\ live > 1 => r.order <= MaxOverlapOrders

Issuable(r) == IssuableWith(r, Cardinality(LiveWorkers))

Goto(w, label) == wpc' = [wpc EXCEPT ![w] = label]

\* _place_sell_order_for_position: a limit sell at the required sell price,
\* registered in pending_sell_orders when the gateway takes it; nothing for
\* the market order type.  Gives the new simulator and pending_sell_orders.
place_sell_order_for_position(s, sells, pm, p, buy_price) ==
    LET sell_target == calculate_required_sell_price(buy_price, user_profit_margin)
        r == simulate_conditional_sell(s, pm.objs[p].amount, sell_target)
    IN IF order_type = "limit"
       THEN [sim |-> r.sim, order |-> r.order,
             sells |-> IF r.order # NoOrder
                       THEN DictPut(sells, r.order,
                                    [position |-> p, target_price |-> sell_target])
                       ELSE sells]
       ELSE [sim |-> s, order |-> NoOrder, sells |-> sells]

\* ---------------------------------------------------------- the worker loop
\* The loop over a snapshot of a pending map's keys passes every order whose
\* record is there and whose status is not 'closed': what is left starts with
\* the first key that has no record or whose order is filled.
RECURSIVE PassUnfilled(_, _, _)
PassUnfilled(keys, records, s) ==
    IF keys = <<>> THEN <<>>
    ELSE IF Head(keys) \in DOMAIN records /\ get_order_status(s, Head(keys)) # "closed"
    THEN PassUnfilled(Tail(keys), records, s)
    ELSE keys

\* while not self._stop_event.is_set() and self.state == RUNNING:
\* a true test enters _check_pending_orders (phase "begin": its loop over the
\* buy orders has yet to take the keys), a false one leaves to finally.
W_LoopTest(w) ==
    /\ wpc[w] = "loop"
    /\ IF stop_event \/ state # "running"
       THEN /\ Goto(w, "finally")
            /\ wloc' = [wloc EXCEPT ![w] = [LocInit EXCEPT !.why = "cond"]]
       ELSE /\ Goto(w, "chk_buy")
            /\ wloc' = [wloc EXCEPT ![w] = [LocInit EXCEPT !.phase = "begin"]]
    /\ tick_mark' = IF tick_mark[w] = 0 \/ stop_event \/ state # "running"
                    THEN tick_mark
                    ELSE [tick_mark EXCEPT ![w] = simulator.order_id_counter]
    /\ sell_tries' = IF tick_mark[w] = 0 \/ stop_event \/ state # "running"
                     THEN sell_tries
                     ELSE {}
    /\ UNCHANGED <<engine_vars, book_vars, position_manager, simulator, cpc, cloc,
                   hist_vars>>
    /\ UNCHANGED <<ledger_call, call_ret, status, issued, skipped>>
    /\ Observe

\* _check_pending_orders, buy orders: list(self.pending_buy_orders.keys()),
\* then for each key look the record up (KeyError when it is gone) and ask
\* the gateway for the order's status.
W_CheckBuy(w) ==
    /\ wpc[w] = "chk_buy"
    /\ LET keys == PassUnfilled(wloc[w].keys, pending_buy_orders, simulator) IN
       IF wloc[w].phase = "begin"
       THEN /\ UNCHANGED wpc
            /\ wloc' = [wloc EXCEPT ![w].keys = SortedSeq(DOMAIN pending_buy_orders),
                                     ![w].phase = ""]
       ELSE IF keys = <<>>
       THEN /\ Goto(w, "chk_sell")
            /\ wloc' = [wloc EXCEPT ![w].keys = SortedSeq(DOMAIN pending_sell_orders)]
       ELSE LET id == Head(keys) IN
            IF id \notin DOMAIN pending_buy_orders
            THEN /\ Goto(w, "except")
                 /\ wloc' = [wloc EXCEPT ![w] = LocInit]
            ELSE /\ Goto(w, "apply_buy")
                 /\ wloc' = [wloc EXCEPT ![w].keys = Tail(keys), ![w].oid = id,
                                          ![w].amt = pending_buy_orders[id].amount_usdt]
    /\ UNCHANGED <<engine_vars, book_vars, position_manager, simulator, cpc, cloc,
                   hist_vars>>
    /\ UNCHANGED <<ledger_call, call_ret, status, issued, tick_mark, sell_tries, skipped>>
    /\ Observe

\* A buy order seen closed: add the position at the fill price, place its
\* sell order, delete the pending record (KeyError when it is gone).
W_ApplyBuy(w) ==
    /\ wpc[w] = "apply_buy"
    /\ LET l == wloc[w]
           fill_price == calculate_average_fill_price(simulator, l.oid)
           pm1 == IF fill_price # NoPrice
                  THEN add_position(position_manager, fill_price,
                                    ToBtc(l.amt, fill_price), l.oid,
                                    get_timestamp(position_manager))
                  ELSE position_manager
           r == IF fill_price # NoPrice
                THEN place_sell_order_for_position(simulator, pending_sell_orders,
                         pm1, NewPosition(position_manager), fill_price)
                ELSE [sim |-> simulator, order |-> NoOrder,
                      sells |-> pending_sell_orders]
       IN /\ Issuable(r)
          /\ position_manager' = pm1
          /\ simulator' = r.sim
          /\ pending_sell_orders' = r.sells
          /\ ledger_applied' = IF pm1 # position_manager
                               THEN [ledger_applied EXCEPT ![l.oid] = @ + 1]
                               ELSE ledger_applied
          /\ IF l.oid \in DOMAIN pending_buy_orders
             THEN /\ pending_buy_orders' = DictDel(pending_buy_orders, l.oid)
                  /\ Goto(w, "chk_buy")
                  /\ wloc' = [wloc EXCEPT ![w].oid = NoOrder, ![w].amt = 0]
             ELSE /\ UNCHANGED pending_buy_orders
                  /\ Goto(w, "except")
                  /\ wloc' = [wloc EXCEPT ![w] = LocInit]
    /\ UNCHANGED <<engine_vars, cpc, cloc, last_sell, fs_positions>>
    /\ sell_tries' = IF tick_mark[w] # 0
                        /\ calculate_average_fill_price(simulator, wloc[w].oid) # NoPrice
                     THEN sell_tries \cup {NewPosition(position_manager)}
                     ELSE sell_tries
    /\ UNCHANGED <<ledger_call, call_ret, status, issued, tick_mark, skipped>>
    /\ Observe

\* _check_pending_orders, sell orders.
W_CheckSell(w) ==
    /\ wpc[w] = "chk_sell"
    /\ LET keys == PassUnfilled(wloc[w].keys, pending_sell_orders, simulator) IN
       IF keys = <<>>
       THEN /\ Goto(w, "price")
            /\ wloc' = [wloc EXCEPT ![w] = LocInit]
       ELSE LET id == Head(keys) IN
            IF id \notin DOMAIN pending_sell_orders
            THEN /\ Goto(w, "except")
                 /\ wloc' = [wloc EXCEPT ![w] = LocInit]
            ELSE /\ Goto(w, "apply_sell")
                 /\ wloc' = [wloc EXCEPT ![w].keys = Tail(keys), ![w].oid = id,
                                          ![w].posref = pending_sell_orders[id].position]
    /\ UNCHANGED <<engine_vars, book_vars, position_manager, simulator, cpc, cloc,
                   hist_vars>>
    /\ UNCHANGED <<ledger_call, call_ret, status, issued, tick_mark, sell_tries, skipped>>
    /\ Observe

\* A sell order seen closed: close its position at the fill price (ValueError
\* when the position is not open), delete the pending record.
W_ApplySell(w) ==
    /\ wpc[w] = "apply_sell"
    /\ LET l == wloc[w]
           fill_price == calculate_average_fill_price(simulator, l.oid)
           c == IF fill_price # NoPrice
                THEN close_position(position_manager, l.posref, fill_price)
                ELSE [pm |-> position_manager, raised |-> FALSE]
       IN /\ position_manager' = c.pm
          /\ ledger_applied' = IF c.pm # position_manager
                               THEN [ledger_applied EXCEPT ![l.oid] = @ + 1]
                               ELSE ledger_applied
          /\ IF ~c.raised /\ l.oid \in DOMAIN pending_sell_orders
             THEN /\ pending_sell_orders' = DictDel(pending_sell_orders, l.oid)
                  /\ Goto(w, "chk_sell")
                  /\ wloc' = [wloc EXCEPT ![w].oid = NoOrder, ![w].posref = NoPosition]
             ELSE /\ UNCHANGED pending_sell_orders
                  /\ Goto(w, "except")
                  /\ wloc' = [wloc EXCEPT ![w] = LocInit]
    /\ UNCHANGED <<engine_vars, pending_buy_orders, simulator, cpc, cloc, last_sell,
                   fs_positions>>
    /\ UNCHANGED <<ledger_call, call_ret, status, issued, tick_mark, sell_tries, skipped>>
    /\ Observe

\* current_price = self.client.get_current_price(...): no price, sleep and
\* continue; else the exit check when pending_exit, the trading logic if not.
\* A failed fetch that ends in the ERROR state.
W_NoPriceFaulting(w) ==
    /\ wpc[w] = "price"
    /\ Goto(w, "loop")
    /\ state' = "error"
    /\ wloc' = [wloc EXCEPT ![w] = [LocInit EXCEPT !.why = "no_price"]]
    /\ UNCHANGED <<stop_event, pending_exit, order_type, user_profit_margin,
                   trading_thread, book_vars, position_manager, simulator, cpc, cloc,
                   hist_vars>>
    /\ UNCHANGED <<ledger_call, call_ret, status, issued, tick_mark, sell_tries, skipped>>
    /\ Observe

\* The price fetch gave None: the loop sleeps and goes on to its next pass.
W_NoPrice(w) ==
    /\ wpc[w] = "price"
    /\ Goto(w, "loop")
    /\ wloc' = [wloc EXCEPT ![w] = [LocInit EXCEPT !.why = "no_price"]]
    /\ UNCHANGED <<engine_vars, book_vars, position_manager, simulator, cpc, cloc,
                   hist_vars>>
    /\ UNCHANGED <<ledger_call, call_ret, status, issued, tick_mark, sell_tries, skipped>>
    /\ Observe

Profitable(pm, p, current_price) ==
    current_price >= calculate_required_sell_price(pm.objs[p].buy_price,
                                                   user_profit_margin)

\* _check_profitable_exit up to its sells: no open position returns True
\* (break); else the profitable positions are to be sold, and the call will
\* return True when every open position is among them.
W_Exit(w) ==
    /\ wpc[w] = "price"
    /\ pending_exit
    /\ \E current_price \in Prices :
       LET open_positions == position_manager.positions
           profitable_positions ==
               SelectSeq(open_positions,
                         LAMBDA p : Profitable(position_manager, p, current_price))
       IN IF open_positions = <<>>
          THEN /\ Goto(w, "finally")
               /\ wloc' = [wloc EXCEPT ![w] = [LocInit EXCEPT !.why = "break"]]
          ELSE /\ Goto(w, "sell")
               /\ wloc' = [wloc EXCEPT ![w].sells = profitable_positions,
                                        ![w].price = current_price,
                                        ![w].phase = "exit",
                                        ![w].ret = (Len(profitable_positions)
                                                    = Len(open_positions))]
    /\ UNCHANGED <<engine_vars, book_vars, position_manager, simulator, cpc, cloc,
                   hist_vars>>
    /\ UNCHANGED <<ledger_call, call_ret, status, issued, tick_mark, sell_tries, skipped>>
    /\ Observe

\* _execute_sell for the next position to sell: a market sell of the
\* position's amount at the price the gateway fetches then; when the gateway
\* made the order, the position is closed at the loop's current_price (an
\* exception is caught and logged).  After the last one: the exit check
\* returns (True: break), the sell-opportunity check goes on to the fills.
W_Sell(w) ==
    /\ wpc[w] = "sell"
    /\ LET l == wloc[w] IN
       IF l.sells = <<>>
       THEN /\ IF l.phase = "exit" /\ l.ret
               THEN /\ Goto(w, "finally")
                    /\ wloc' = [wloc EXCEPT ![w] = [LocInit EXCEPT !.why = "break"]]
               ELSE /\ Goto(w, "fill")
                    /\ wloc' = [wloc EXCEPT ![w] = LocInit]
            /\ UNCHANGED <<position_manager, simulator, last_sell>>
       ELSE \E p2 \in PriceAnswers :
            LET p == Head(l.sells)
                r == simulate_market_sell(simulator, position_manager.objs[p].amount, p2)
            IN /\ Issuable(r)
               /\ simulator' = r.sim
               /\ position_manager' =
                     IF r.order # NoOrder
                     THEN close_position(position_manager, p, l.price).pm
                     ELSE position_manager
               /\ last_sell' =
                     IF r.order # NoOrder
                     THEN [made |-> TRUE, exit |-> (l.phase = "exit"),
                           buy_price |-> position_manager.objs[p].buy_price,
                           fill_price |-> p2, margin |-> user_profit_margin]
                     ELSE last_sell
               /\ wloc' = [wloc EXCEPT ![w].sells = Tail(l.sells)]
               /\ UNCHANGED wpc
    /\ UNCHANGED <<engine_vars, book_vars, cpc, cloc, ledger_applied,
                   fs_positions>>
    /\ UNCHANGED <<ledger_call, call_ret, status, issued, tick_mark, sell_tries, skipped>>
    /\ Observe

\* _calculate_buy_trigger_price
calculate_buy_trigger_price(pm, current_price) ==
    LET last_buy_price == get_last_buy_price(pm)
    IN IF last_buy_price = NoPrice
       THEN (current_price * (1000 - BuyTriggerPermille)) \div 1000
       ELSE (last_buy_price * (1000 - BuyTriggerPermille)) \div 1000

\* min(usdt_balance * 0.95, usdt_balance - 5)
PurchaseAmount(usdt_balance) ==
    Min((usdt_balance * InitialFractionPct) \div 100, usdt_balance - BalanceBuffer)

\* _execute_limit_buy: the conditional buy, registered in pending_buy_orders
\* when the gateway made the order.
execute_limit_buy(s, buys, trigger_price, amount_usdt) ==
    LET r == simulate_conditional_buy(s, amount_usdt, trigger_price)
    IN IF amount_usdt < MinTradeAmount
       THEN [sim |-> s, order |-> NoOrder, buys |-> buys]
       ELSE [sim |-> r.sim, order |-> r.order,
             buys |-> IF r.order # NoOrder
                      THEN DictPut(buys, r.order,
                                   [trigger_price |-> trigger_price,
                                    amount_usdt |-> amount_usdt])
                      ELSE buys]

\* _execute_market_buy: p2 is the price the engine fetches (None raises in
\* the log line and is caught), p3 the price the gateway fills at; the
\* position is added at p2 for amount_usdt / p2 as soon as the order is made.
execute_market_buy(s, pm, amount_usdt, p2, p3) ==
    LET r == simulate_market_buy(s, amount_usdt, p3)
    IN IF p2 = NoPrice THEN [sim |-> s, order |-> NoOrder, pm |-> pm]
       ELSE [sim |-> r.sim, order |-> r.order,
             pm |-> IF r.order # NoOrder
                    THEN add_position(pm, p2, ToBtc(amount_usdt, p2), r.order,
                                      get_timestamp(pm))
                    ELSE pm]

\* _execute_trading_logic: a buy when _should_place_buy_order, then for the
\* market order type the sell opportunities.
W_Trade(w) ==
    /\ wpc[w] = "price"
    /\ ~pending_exit
    /\ \E current_price \in Prices, p2 \in MarketPriceAnswers(order_type),
          p3 \in MarketPriceAnswers(order_type) :
       LET usdt_balance == simulator.balances.USDT
           should == /\ usdt_balance >= MinTradeAmount
                     /\ should_buy_more(position_manager, current_price)
           trigger_price == calculate_buy_trigger_price(position_manager, current_price)
           purchase_amount == PurchaseAmount(usdt_balance)
           buying == should /\ purchase_amount >= MinTradeAmount
           lb == IF buying /\ order_type = "limit"
                 THEN execute_limit_buy(simulator, pending_buy_orders, trigger_price,
                                        purchase_amount)
                 ELSE [sim |-> simulator, order |-> NoOrder, buys |-> pending_buy_orders]
           mb == IF buying /\ order_type # "limit"
                 THEN execute_market_buy(lb.sim, position_manager, purchase_amount, p2, p3)
                 ELSE [sim |-> lb.sim, order |-> NoOrder, pm |-> position_manager]
       IN /\ Issuable(lb) /\ Issuable(mb)
          /\ simulator' = mb.sim
          /\ pending_buy_orders' = lb.buys
          /\ position_manager' = mb.pm
          /\ IF order_type = "market"
             THEN /\ Goto(w, "sell")
                  /\ wloc' = [wloc EXCEPT
                        ![w].phase = "opp",
                        ![w].price = current_price,
                        ![w].sells = SelectSeq(mb.pm.positions,
                                       LAMBDA p : Profitable(mb.pm, p, current_price))]
             ELSE /\ Goto(w, "fill")
                  /\ wloc' = [wloc EXCEPT ![w] = LocInit]
    /\ UNCHANGED <<engine_vars, pending_sell_orders, cpc, cloc, hist_vars>>
    /\ UNCHANGED <<ledger_call, call_ret, status, issued, tick_mark, sell_tries, skipped>>
    /\ Observe

\* self.client.check_and_fill_orders(), then the sleep.
W_Fill(w) ==
    /\ wpc[w] = "fill"
    /\ \E p \in PriceAnswers : simulator' = check_and_fill_orders(simulator, p)
    /\ Goto(w, "loop")
    /\ wloc' = [wloc EXCEPT ![w] = LocInit]
    /\ UNCHANGED <<engine_vars, book_vars, position_manager, cpc, cloc, hist_vars>>
    /\ UNCHANGED <<ledger_call, call_ret, status, issued, tick_mark, sell_tries, skipped>>
    /\ Observe

\* except Exception: self.state = BotState.ERROR
W_Except(w) ==
    /\ wpc[w] = "except"
    /\ state' = "error"
    /\ Goto(w, "finally")
    /\ wloc' = [wloc EXCEPT ![w] = [LocInit EXCEPT !.why = "fault"]]
    /\ UNCHANGED <<stop_event, pending_exit, order_type, user_profit_margin,
                   trading_thread, book_vars, position_manager, simulator, cpc, cloc,
                   hist_vars>>
    /\ UNCHANGED <<ledger_call, call_ret, status, issued, tick_mark, sell_tries, skipped>>
    /\ Observe

\* finally: self.state = BotState.STOPPED; the thread ends.
W_Finally(w) ==
    /\ wpc[w] = "finally"
    /\ state' = "stopped"
    /\ Goto(w, "dead")
    /\ wloc' = [wloc EXCEPT ![w] = LocInit]
    /\ UNCHANGED <<stop_event, pending_exit, order_type, user_profit_margin,
                   trading_thread, book_vars, position_manager, simulator, cpc, cloc,
                   hist_vars>>
    /\ UNCHANGED <<ledger_call, call_ret, status, issued, tick_mark, sell_tries, skipped>>
    /\ Observe

\* ----------------------------------------------------- the control thread
FreeWorker == CHOOSE w \in Workers : wpc[w] = "dead" /\ \A v \in Workers : wpc[v] = "dead" => w <= v

\* _make_initial_purchase at the price p start_trading fetched; p2 is the
\* price the gateway fills a market buy at.
make_initial_purchase(s, buys, pm, p, p2) ==
    LET purchase_amount == (s.balances.USDT * InitialFractionPct) \div 100
        buy_price == (p * (1000 - InitialLimitDiscount)) \div 1000
        lb == execute_limit_buy(s, buys, buy_price, purchase_amount)
        r == simulate_market_buy(s, purchase_amount, p2)
    IN IF order_type = "limit"
       THEN [ok |-> lb.order # NoOrder, order |-> lb.order, sim |-> lb.sim,
             buys |-> lb.buys, pm |-> pm]
       ELSE [ok |-> r.order # NoOrder, order |-> r.order, sim |-> r.sim, buys |-> buys,
             pm |-> IF r.order # NoOrder /\ order_type = "market"
                    THEN add_position(pm, p, ToBtc(purchase_amount, p), r.order,
                                      get_timestamp(pm))
                    ELSE pm]

\* A setup check that does not look at the profit margin.
validate_setup_unvalidated == simulator.balances.USDT >= MinTradeAmount

validate_setup ==
    /\ ~MarginTooLow(user_profit_margin)
    /\ simulator.balances.USDT >= MinTradeAmount

\* What start_trading returns when it is not refused for running: True when
\* the setup is valid, the price p was fetched and the initial purchase (a
\* market buy filling at p2) was made.
start_returns(p, p2) ==
    /\ validate_setup
    /\ p # NoPrice
    /\ make_initial_purchase(simulator, pending_buy_orders, position_manager, p, p2).ok

\* A start that, given a price, makes the initial purchase whatever
\* _validate_setup said, and starts nothing.
start_trading_eager(p, p2) ==
    /\ cpc = "idle"
    /\ state # "running"
    /\ p # NoPrice
    /\ LET ip == make_initial_purchase(simulator, pending_buy_orders,
                                       position_manager, p, p2)
       IN /\ IssuableWith(ip, Cardinality(LiveWorkers) + 1)
          /\ simulator' = ip.sim
          /\ pending_buy_orders' = ip.buys
          /\ position_manager' = ip.pm
    /\ UNCHANGED <<state, pending_exit, stop_event, trading_thread, wpc, order_type,
                   user_profit_margin, pending_sell_orders, wloc, cpc, cloc,
                   ledger_applied, last_sell, fs_positions>>

\* start_trading with the price answers p and p2: refused when running, when
\* the setup is not valid, without a price, or when the initial purchase
\* fails; else the initial purchase is made, the state is RUNNING and a new
\* worker thread runs the loop.
start_trading(p, p2) ==
    /\ cpc = "idle"
    /\ state # "running"
    /\ \E w \in Workers : wpc[w] = "dead"
    /\ LET ip == make_initial_purchase(simulator, pending_buy_orders,
                                       position_manager, p, p2)
       IN IF start_returns(p, p2)
          THEN /\ IssuableWith(ip, Cardinality(LiveWorkers) + 1)
               /\ simulator' = ip.sim
               /\ pending_buy_orders' = ip.buys
               /\ position_manager' = ip.pm
               /\ state' = "running"
               /\ pending_exit' = FALSE
               /\ stop_event' = FALSE
               /\ trading_thread' = FreeWorker
               /\ wpc' = [wpc EXCEPT ![FreeWorker] = "loop"]
          ELSE /\ UNCHANGED <<simulator, pending_buy_orders, position_manager, state,
                              pending_exit, stop_event, trading_thread, wpc>>
    /\ UNCHANGED <<order_type, user_profit_margin, pending_sell_orders, wloc, cpc, cloc,
                   ledger_applied, last_sell, fs_positions>>

\* A start_trading call whose result nobody looks at.
C_Start ==
    /\ \E p \in PriceAnswers, p2 \in MarketPriceAnswers(order_type) :
          start_trading(p, p2)
    /\ UNCHANGED obs_vars

\* A start_trading call and what it returns.  api_down: the engine is a live
\* one whose API is not connected, which _validate_setup refuses first (the
\* simulation skips that check).
C_StartCall ==
    /\ \E p \in PriceAnswers, p2 \in MarketPriceAnswers(order_type),
          api_down \in BOOLEAN :
          IF api_down
          THEN /\ cpc = "idle"
               /\ state # "running"
               /\ call_ret' = [op |-> "start", ret |-> FALSE, n |-> 1 - call_ret.n]
               /\ UNCHANGED <<engine_vars, book_vars, position_manager, simulator,
                              thread_vars, hist_vars>>
          ELSE /\ start_trading(p, p2)
               /\ call_ret' = [op |-> "start", ret |-> start_returns(p, p2),
                               n |-> 1 - call_ret.n]
    /\ UNCHANGED <<status, status_seen, ledger_call, issued,
                   tick_mark, sell_tries, skipped>>

\* Margins a caller asks for, per mille (0.1 % .. 0.5 %; the call divides
\* its percentage by 100, the model keeps margins per mille).
MarginRequests == {1, 2, 3, 5}

\* set_profit_margin: a margin validate_profit_margin refuses is not taken.
C_SetMargin ==
    /\ cpc = "idle"
    /\ \E margin \in MarginRequests :
          /\ user_profit_margin' = IF MarginTooLow(margin) THEN user_profit_margin
                                   ELSE margin
          /\ call_ret' = [op |-> "set_profit_margin", margin |-> margin,
                          ret |-> ~MarginTooLow(margin), n |-> 1 - call_ret.n]
    /\ UNCHANGED <<state, stop_event, pending_exit, order_type, trading_thread,
                   book_vars, position_manager, simulator, thread_vars, hist_vars,
                   status, status_seen, ledger_call, issued,
                   tick_mark, sell_tries, skipped>>

\* get_status, statement by statement; no lock is held, so steps of the
\* worker come between the statements.  First the dict with the state and
\* pending_exit is built.
C_GetStatus ==
    /\ cpc = "idle"
    /\ status' = [at |-> "state", state |-> state, pending_exit |-> pending_exit,
                  USDT |-> 0, BTC |-> 0, count |-> 0, buy_orders |-> 0,
                  sell_orders |-> 0]
    /\ status_seen' = {Observation}
    /\ cpc' = "gs_balances"
    /\ UNCHANGED <<engine_vars, book_vars, position_manager, simulator, wpc, wloc, cloc,
                   hist_vars, call_ret, ledger_call, issued,
                   tick_mark, sell_tries, skipped>>

\* status['balances']
C_StatusBalances ==
    /\ cpc = "gs_balances"
    /\ status' = [status EXCEPT !.at = "balances",
                                !.USDT = simulator.balances.USDT,
                                !.BTC = simulator.balances.BTC]
    /\ cpc' = "gs_positions"
    /\ UNCHANGED <<engine_vars, book_vars, position_manager, simulator, wpc, wloc, cloc,
                   hist_vars, status_seen, call_ret, ledger_call, issued,
                   tick_mark, sell_tries, skipped>>

\* status['positions']
C_StatusPositions ==
    /\ cpc = "gs_positions"
    /\ status' = [status EXCEPT !.at = "positions",
                                !.count = Len(position_manager.positions)]
    /\ cpc' = "gs_pending"
    /\ UNCHANGED <<engine_vars, book_vars, position_manager, simulator, wpc, wloc, cloc,
                   hist_vars, status_seen, call_ret, ledger_call, issued,
                   tick_mark, sell_tries, skipped>>

\* status['pending_orders']
C_StatusPending ==
    /\ cpc = "gs_pending"
    /\ status' = [status EXCEPT !.at = "pending_orders",
                                !.buy_orders = Cardinality(DOMAIN pending_buy_orders),
                                !.sell_orders = Cardinality(DOMAIN pending_sell_orders)]
    /\ cpc' = "gs_return"
    /\ UNCHANGED <<engine_vars, book_vars, position_manager, simulator, wpc, wloc, cloc,
                   hist_vars, status_seen, call_ret, ledger_call, issued,
                   tick_mark, sell_tries, skipped>>

\* return status
C_StatusReturn ==
    /\ cpc = "gs_return"
    /\ status' = [status EXCEPT !.at = "returned"]
    /\ cpc' = "idle"
    /\ UNCHANGED <<engine_vars, book_vars, position_manager, simulator, wpc, wloc, cloc,
                   hist_vars, status_seen, call_ret, ledger_call, issued,
                   tick_mark, sell_tries, skipped>>

\* stop_trading
C_Stop ==
    /\ cpc = "idle"
    /\ state = "running"
    /\ pending_exit' = TRUE
    /\ UNCHANGED <<state, stop_event, order_type, user_profit_margin, trading_thread,
                   book_vars, position_manager, simulator, thread_vars, ledger_applied,
                   last_sell, fs_positions>>
    /\ UNCHANGED obs_vars

\* force_stop, first statements: STOPPING, the stop event, and the pending
\* buy orders to cancel.
C_ForceStop ==
    /\ cpc = "idle"
    /\ state' = "stopping"
    /\ stop_event' = TRUE
    /\ cpc' = "fs_buy"
    /\ cloc' = [keys |-> SortedSeq(DOMAIN pending_buy_orders)]
    /\ fs_positions' = position_manager
    /\ UNCHANGED <<pending_exit, order_type, user_profit_margin, trading_thread,
                   book_vars, position_manager, simulator, wpc, wloc, ledger_applied,
                   last_sell>>
    /\ UNCHANGED obs_vars

\* _cancel_all_pending_orders, buy orders: a cancelled order's record is
\* deleted; a KeyError ends the whole cancellation (it is caught and logged).
C_CancelBuy ==
    /\ cpc = "fs_buy"
    /\ IF cloc.keys = <<>>
       THEN /\ cpc' = "fs_sell"
            /\ cloc' = [cloc EXCEPT !.keys = SortedSeq(DOMAIN pending_sell_orders)]
            /\ UNCHANGED <<simulator, pending_buy_orders>>
       ELSE LET id == Head(cloc.keys) IN
            /\ simulator' = cancel_order(simulator, id)
            /\ IF ~CanCancel(simulator, id)
               THEN /\ UNCHANGED <<pending_buy_orders, cpc>>
                    /\ cloc' = [cloc EXCEPT !.keys = Tail(@)]
               ELSE IF id \in DOMAIN pending_buy_orders
               THEN /\ pending_buy_orders' = DictDel(pending_buy_orders, id)
                    /\ cloc' = [cloc EXCEPT !.keys = Tail(@)]
                    /\ UNCHANGED cpc
               ELSE /\ cpc' = "fs_join"
                    /\ cloc' = [cloc EXCEPT !.keys = <<>>]
                    /\ UNCHANGED pending_buy_orders
    /\ UNCHANGED <<engine_vars, pending_sell_orders, position_manager, wpc, wloc,
                   hist_vars>>
    /\ UNCHANGED obs_vars

C_CancelSell ==
    /\ cpc = "fs_sell"
    /\ IF cloc.keys = <<>>
       THEN /\ cpc' = "fs_join"
            /\ UNCHANGED <<simulator, pending_sell_orders, cloc>>
       ELSE LET id == Head(cloc.keys) IN
            /\ simulator' = cancel_order(simulator, id)
            /\ IF ~CanCancel(simulator, id)
               THEN /\ UNCHANGED <<pending_sell_orders, cpc>>
                    /\ cloc' = [cloc EXCEPT !.keys = Tail(@)]
               ELSE IF id \in DOMAIN pending_sell_orders
               THEN /\ pending_sell_orders' = DictDel(pending_sell_orders, id)
                    /\ cloc' = [cloc EXCEPT !.keys = Tail(@)]
                    /\ UNCHANGED cpc
               ELSE /\ cpc' = "fs_join"
                    /\ cloc' = [cloc EXCEPT !.keys = <<>>]
                    /\ UNCHANGED pending_sell_orders
    /\ UNCHANGED <<engine_vars, pending_buy_orders, position_manager, wpc, wloc,
                   hist_vars>>
    /\ UNCHANGED obs_vars

\* A force_stop that ends by clearing the ledger, as reset_bot does.
C_JoinClearing ==
    /\ cpc = "fs_join"
    /\ state' = "stopped"
    /\ fs_positions' = PmInit
    /\ cpc' = "idle"
    /\ cloc' = CLocInit
    /\ position_manager' = clear_all_positions(position_manager)
    /\ UNCHANGED <<stop_event, pending_exit, order_type, user_profit_margin,
                   trading_thread, book_vars, simulator, wpc, wloc,
                   ledger_applied, last_sell>>
    /\ UNCHANGED obs_vars

\* self._trading_thread.join(timeout=5) returns when the thread has ended or
\* the timeout has passed; then self.state = BotState.STOPPED.
C_Join ==
    /\ cpc = "fs_join"
    /\ state' = "stopped"
    /\ fs_positions' = PmInit
    /\ cpc' = "idle"
    /\ cloc' = CLocInit
    /\ UNCHANGED <<stop_event, pending_exit, order_type, user_profit_margin,
                   trading_thread, book_vars, position_manager, simulator, wpc, wloc,
                   ledger_applied, last_sell>>
    /\ UNCHANGED obs_vars

Worker(w) ==
    \/ W_LoopTest(w)
    \/ W_CheckBuy(w)
    \/ W_ApplyBuy(w)
    \/ W_CheckSell(w)
    \/ W_ApplySell(w)
    \/ W_NoPrice(w)
    \/ W_Exit(w)
    \/ W_Sell(w)
    \/ W_Trade(w)
    \/ W_Fill(w)
    \/ W_Except(w)
    \/ W_Finally(w)

Next ==
    \/ \E w \in Workers : Worker(w)
    \/ C_Start
    \/ C_Stop
    \/ C_ForceStop
    \/ C_CancelBuy
    \/ C_CancelSell
    \/ C_Join

Spec == Init /\ [][Next]_vars

\* The engine after a graceful stop in the limit order type: the initial buy
\* order 1 filled at its price and became position 1 with sell order 3; the
\* first tick had placed buy order 2; after stop_trading the exit check sold
\* position 1 by market order 4 and the loop ended.  Orders 2 and 3 rest at
\* the gateway, with their records.
GracefulStopState ==
    /\ state = "stopped"
    /\ stop_event = FALSE
    /\ pending_exit = TRUE
    /\ order_type = "limit"
    /\ user_profit_margin = DefaultMargin
    /\ trading_thread = 1
    /\ pending_buy_orders = (2 :> [trigger_price |-> 9940, amount_usdt |-> 45000])
    /\ pending_sell_orders = (3 :> [position |-> 1, target_price |-> 10061])
    /\ position_manager =
          [objs |-> <<[buy_price |-> 9990, amount |-> 4754, status |-> "closed",
                      exit_price |-> 10100, exit_timestamp |-> 1, timestamp |-> 1,
                      src |-> 1]>>,
           positions |-> <<>>, closed_positions |-> <<1>>]
    /\ simulator =
          [balances |-> [USDT |-> 50428, BTC |-> 0],
           orders |->
             <<[type |-> "limit", side |-> "buy", amount |-> 4754, price |-> 9990,
                status |-> "closed"],
               [type |-> "limit", side |-> "buy", amount |-> 4527, price |-> 9940,
                status |-> "open"],
               [type |-> "limit", side |-> "sell", amount |-> 4754, price |-> 10061,
                status |-> "open"],
               [type |-> "market", side |-> "sell", amount |-> 4754, price |-> 10100,
                status |-> "closed"]>>,
           pending_orders |-> <<2, 3>>,
           order_id_counter |-> 5]
    /\ wpc = [w \in Workers |-> "dead"]
    /\ wloc = [w \in Workers |-> LocInit]
    /\ cpc = "idle"
    /\ cloc = CLocInit
    /\ last_sell = [made |-> TRUE, exit |-> TRUE, buy_price |-> 9990,
                    fill_price |-> 10100, margin |-> DefaultMargin]
    /\ fs_positions = PmInit

StoppedEngine ==
    /\ GracefulStopState
    /\ ledger_applied = [o \in 1..MaxRestartOrders |-> IF o = 1 THEN 1 ELSE 0]

InitAfterStop == ObsInit /\ StoppedEngine

SpecRestart == InitAfterStop /\ [][Next]_vars

\* --------------------------------------------- calls and their results
\* The engine with the results of start_trading and set_profit_margin
\* observed, driven by start, stop and set-margin calls.  The configuration
\* file may hold any margin and the account any balance when the engine is
\* constructed.
MaxCallOrders == 3
ConfigMargins == {2, 5}
StartBalances == {InitialBalance, BalanceBuffer}

FreshEngineWith(balances) ==
    /\ state = "stopped"
    /\ stop_event = FALSE
    /\ pending_exit = FALSE
    /\ order_type \in {"limit", "market"}
    /\ user_profit_margin \in ConfigMargins
    /\ trading_thread = NoWorker
    /\ pending_buy_orders = EmptyDict
    /\ pending_sell_orders = EmptyDict
    /\ position_manager = PmInit
    /\ \E usdt \in balances :
          simulator = [SimInit EXCEPT !.balances.USDT = usdt]
    /\ wpc = [w \in Workers |-> "dead"]
    /\ wloc = [w \in Workers |-> LocInit]
    /\ cpc = "idle"
    /\ cloc = CLocInit
    /\ ledger_applied = [o \in 1..MaxCallOrders |-> 0]
    /\ last_sell = NoSell
    /\ fs_positions = PmInit

FreshEngine == FreshEngineWith(StartBalances)

InitFresh == ObsInit /\ FreshEngine

\* A newly constructed engine, or one that traded and was stopped.
InitCalls == InitFresh \/ InitAfterStop

NextCalls ==
    \/ \E w \in Workers : Worker(w)
    \/ C_StartCall
    \/ C_SetMargin
    \/ C_Stop

SpecCalls == InitCalls /\ [][NextCalls]_vars

\* The same engines with each worker's ticks marked: tick_mark holds the
\* gateway's order_id_counter as the tick began.
InitTicks ==
    /\ status = NoStatus
    /\ status_seen = {}
    /\ call_ret = NoCall
    /\ ledger_call = NoCall
    /\ issued = <<>>
    /\ skipped = {}
    /\ sell_tries = {}
    /\ tick_mark = [w \in Workers |-> 1]
    /\ (FreshEngine \/ StoppedEngine)

SpecTicks == InitTicks /\ [][NextCalls]_vars

\* ------------------------------------------------------ status queries
\* The engine started and stopped while get_status calls are made.
NextStatus ==
    \/ \E w \in Workers : Worker(w)
    \/ C_Start
    \/ C_Stop
    \/ C_GetStatus
    \/ C_StatusBalances
    \/ C_StatusPositions
    \/ C_StatusPending
    \/ C_StatusReturn

SpecStatus == InitCalls /\ [][NextStatus]_vars

\* ------------------------------------------------- bot.py, simulator.py
\* TradingBot with its Simulator (the program main.py runs), in the same
\* variables: state is bot.status, stop_event is "not bot.running" (the flag
\* the loop tests), position_manager holds bot.positions, simulator the
\* Simulator (orders by id, pending_orders the ids it tracks),
\* pending_sell_orders maps a sell order to the position whose sell_order_id
\* it is, user_profit_margin is bot.profit_margin.  A pass of the loop is one
\* step.
MaxBotOrders == 3
BotMinTradeAmount == 10 * UsdtScale
BotFirstFractionPct == 30
BotNextFractionPct == 20

\* actual_price = filled_funds / filled_size
BotPrice(funds, size) == (funds * BtcPerUsdt) \div size

\* Simulator._fill_buy_order
bot_fill_buy_order(s, id, fill_price) ==
    LET o == s.orders[id]
        cost == ToUsdt(o.size, fill_price)
        net_cost == cost + calculate_fees(cost)
    IN IF o.status # "active" \/ s.balances.USDT < net_cost THEN s
       ELSE [s EXCEPT !.balances.USDT = @ - net_cost,
                      !.balances.BTC = @ + o.size,
                      !.orders[id].status = "filled",
                      !.orders[id].filled_funds = cost]

\* Simulator._fill_sell_order
bot_fill_sell_order(s, id, fill_price) ==
    LET o == s.orders[id]
        gross_proceeds == ToUsdt(o.size, fill_price)
    IN IF o.status # "active" \/ s.balances.BTC < o.size THEN s
       ELSE [s EXCEPT !.balances.BTC = @ - o.size,
                      !.balances.USDT = @ + gross_proceeds - calculate_fees(gross_proceeds),
                      !.orders[id].status = "filled",
                      !.orders[id].filled_funds = gross_proceeds]

\* Simulator.place_smart_limit_buy_order: smart_price is the price worked out
\* from the order book, current_price the price fetched after the order was
\* made (the order fills at once when it is not above smart_price).
bot_place_smart_limit_buy_order(s, amount_usdt, smart_price, current_price) ==
    IF smart_price = NoPrice \/ s.balances.USDT < amount_usdt THEN SimResult(s, NoOrder)
    ELSE LET id == s.order_id_counter
             o == [side |-> "buy", size |-> ToBtc(amount_usdt, smart_price),
                   price |-> smart_price, status |-> "active", filled_funds |-> 0]
             s1 == [AddOrder(s, o) EXCEPT !.pending_orders = Append(@, id)]
         IN SimResult(IF current_price # NoPrice /\ current_price <= smart_price
                      THEN bot_fill_buy_order(s1, id, current_price) ELSE s1, id)

\* Simulator.place_smart_limit_sell_order at max(target_price, smart_price)
bot_place_smart_limit_sell_order(s, size, target_price, smart_price, current_price) ==
    IF s.balances.BTC < size THEN SimResult(s, NoOrder)
    ELSE LET id == s.order_id_counter
             sell_price == IF smart_price > target_price THEN smart_price
                           ELSE target_price
             o == [side |-> "sell", size |-> size, price |-> sell_price,
                   status |-> "active", filled_funds |-> 0]
             s1 == [AddOrder(s, o) EXCEPT !.pending_orders = Append(@, id)]
         IN SimResult(IF current_price # NoPrice /\ current_price >= sell_price
                      THEN bot_fill_sell_order(s1, id, current_price) ELSE s1, id)

\* Simulator.check_and_fill_orders over the orders from id on: an active
\* order the price has reached fills at its own price.
RECURSIVE bot_check_and_fill_orders(_, _, _)
bot_check_and_fill_orders(s, id, current_price) ==
    IF current_price = NoPrice \/ id >= s.order_id_counter THEN s
    ELSE LET o == s.orders[id]
             s1 == IF o.status # "active" THEN s
                   ELSE IF o.side = "buy" /\ current_price <= o.price
                   THEN bot_fill_buy_order(s, id, o.price)
                   ELSE IF o.side = "sell" /\ current_price >= o.price
                   THEN bot_fill_sell_order(s, id, o.price)
                   ELSE s
         IN bot_check_and_fill_orders(s1, id + 1, current_price)

\* TradingBot._process_filled_orders over the tracked ids: Simulator.
\* check_filled_orders reports and forgets each tracked order that is no
\* longer active; a filled buy becomes a position whose sell order is placed
\* at once (_execute_smart_sell), a filled sell removes its position.
\* b = [sim, pm, sells].
RECURSIVE bot_process_filled_orders(_, _, _, _)
bot_process_filled_orders(b, ids, smart_price, current_price) ==
    IF ids = <<>> THEN b
    ELSE LET id == Head(ids)
             o == b.sim.orders[id]
             actual_price == IF o.filled_funds > 0 THEN BotPrice(o.filled_funds, o.size)
                             ELSE o.price
             pm1 == add_position(b.pm, actual_price, o.size, id, get_timestamp(b.pm))
             pos == Len(pm1.objs)
             target_price == calculate_required_sell_price(actual_price,
                                                           user_profit_margin)
             so == bot_place_smart_limit_sell_order(b.sim, o.size, target_price,
                                                    smart_price, current_price)
             b1 == IF o.status = "active" \/ id \notin Range(b.sim.pending_orders) THEN b
                   ELSE IF o.status = "cancelled" THEN b
                   ELSE IF o.side = "buy"
                   THEN [sim |-> so.sim, pm |-> pm1,
                         sells |-> IF so.order = NoOrder THEN b.sells
                                   ELSE DictPut(b.sells, so.order,
                                                [position |-> pos,
                                                 target_price |-> target_price])]
                   ELSE IF id \in DOMAIN b.sells
                   THEN [b EXCEPT !.pm.positions = RemoveFirst(@, b.sells[id].position)]
                   ELSE b
             forgot == IF o.status = "active" THEN b1
                       ELSE [b1 EXCEPT !.sim.pending_orders = RemoveFirst(@, id)]
         IN bot_process_filled_orders(forgot, Tail(ids), smart_price, current_price)

\* The sell orders _check_exit_opportunities places: one for each of the
\* profitable open positions ps that has no sell order yet.
RECURSIVE bot_exit_sells(_, _, _, _)
bot_exit_sells(b, ps, smart_price, current_price) ==
    IF ps = <<>> THEN b
    ELSE LET pos == Head(ps)
             o == b.pm.objs[pos]
             target_price == calculate_required_sell_price(o.buy_price,
                                                           user_profit_margin)
             so == bot_place_smart_limit_sell_order(b.sim, o.amount, target_price,
                                                    smart_price, current_price)
             b1 == IF \E id \in DOMAIN b.sells : b.sells[id].position = pos THEN b
                   ELSE IF so.order = NoOrder THEN b
                   ELSE [b EXCEPT !.sim = so.sim,
                                  !.sells = DictPut(b.sells, so.order,
                                                    [position |-> pos,
                                                     target_price |-> target_price])]
         IN bot_exit_sells(b1, Tail(ps), smart_price, current_price)

\* TradingBot._calculate_trade_amount
bot_calculate_trade_amount(s, pm) ==
    LET balance == s.balances.USDT
        available_funds == IF balance > BalanceBuffer THEN balance - BalanceBuffer ELSE 0
        pct == IF pm.positions = <<>> THEN BotFirstFractionPct ELSE BotNextFractionPct
    IN IF available_funds < BotMinTradeAmount THEN 0
       ELSE Min((available_funds * pct) \div 100, available_funds - UsdtScale)

\* TradingBot.start: refused when running, when the client is not connected
\* and when the balance is below the minimum; else the flags are set and the
\* loop thread is started.
B_Start ==
    /\ cpc = "idle"
    /\ \E w \in Workers : wpc[w] = "dead"
    /\ \E is_connected \in BOOLEAN :
          LET ok == /\ stop_event
                    /\ is_connected
                    /\ simulator.balances.USDT >= BotMinTradeAmount
          IN /\ call_ret' = [op |-> "bot_start", ret |-> ok, n |-> 1 - call_ret.n]
             /\ IF ok
                THEN /\ stop_event' = FALSE
                     /\ state' = "running"
                     /\ pending_exit' = FALSE
                     /\ trading_thread' = FreeWorker
                     /\ wpc' = [wpc EXCEPT ![FreeWorker] = "loop"]
                ELSE UNCHANGED <<stop_event, state, pending_exit, trading_thread, wpc>>
    /\ UNCHANGED <<order_type, user_profit_margin, book_vars, position_manager,
                   simulator, wloc, cpc, cloc, hist_vars, status, status_seen,
                   ledger_call, issued,
                   tick_mark, sell_tries, skipped>>

\* TradingBot.stop
B_Stop ==
    /\ cpc = "idle"
    /\ ~stop_event
    /\ pending_exit' = TRUE
    /\ UNCHANGED <<state, stop_event, order_type, user_profit_margin, trading_thread,
                   book_vars, position_manager, simulator, thread_vars, hist_vars,
                   obs_vars>>

\* TradingBot.force_stop: the flags are reset, Simulator.cancel_all_orders
\* cancels every active order and forgets the tracked ids, and the thread is
\* joined for at most 10 s.
B_ForceStop ==
    /\ cpc = "idle"
    /\ stop_event' = TRUE
    /\ state' = "stopped"
    /\ simulator' = [simulator EXCEPT
                        !.orders = [id \in DOMAIN @ |->
                                       IF @[id].status = "active"
                                       THEN [@[id] EXCEPT !.status = "cancelled"]
                                       ELSE @[id]],
                        !.pending_orders = <<>>]
    /\ UNCHANGED <<pending_exit, order_type, user_profit_margin, trading_thread,
                   book_vars, position_manager, thread_vars, hist_vars, obs_vars>>

\* while self.running; after the loop the status is set to stopped.
B_LoopTest(w) ==
    /\ wpc[w] = "loop"
    /\ IF ~stop_event
       THEN /\ Goto(w, "tick")
            /\ UNCHANGED state
       ELSE /\ Goto(w, "dead")
            /\ state' = "stopped"
    /\ UNCHANGED <<stop_event, pending_exit, order_type, user_profit_margin,
                   trading_thread, book_vars, position_manager, simulator, wloc, cpc,
                   cloc, hist_vars, obs_vars>>

\* One pass of TradingBot._trading_loop: filled orders are processed, the
\* price is fetched; with pending_exit the exit check ends the loop when
\* every position is profitable and else sells the profitable ones that have
\* no sell order; without it a buy is made when _should_buy_more says so and
\* check_and_fill_orders runs.
B_TickAt(w, current_price) ==
    /\ wpc[w] = "tick"
    /\ \E smart_price \in Prices, later_price \in Prices :
          LET b0 == bot_process_filled_orders(
                       [sim |-> simulator, pm |-> position_manager,
                        sells |-> pending_sell_orders],
                       simulator.pending_orders, smart_price, later_price)
              open == OpenPositions(b0.pm)
              profitable == {i \in DOMAIN open :
                               current_price >= calculate_required_sell_price(
                                                   open[i].buy_price, user_profit_margin)}
              b == IF current_price # NoPrice /\ pending_exit
                      /\ profitable # DOMAIN open
                   THEN bot_exit_sells(b0, SelectSeq(b0.pm.positions,
                                          LAMBDA q : current_price >=
                                             calculate_required_sell_price(
                                                b0.pm.objs[q].buy_price,
                                                user_profit_margin)),
                                       smart_price, later_price)
                   ELSE b0
              trade_amount == bot_calculate_trade_amount(b.sim, b.pm)
              buy == IF bot_should_buy_more(open, current_price)
                        /\ trade_amount >= BotMinTradeAmount
                     THEN bot_place_smart_limit_buy_order(b.sim, trade_amount,
                                                          smart_price, later_price).sim
                     ELSE b.sim
              after == IF current_price = NoPrice \/ pending_exit THEN b.sim
                       ELSE bot_check_and_fill_orders(buy, 1, later_price)
          IN /\ after.order_id_counter <= MaxBotOrders + 1
             /\ simulator' = after
             /\ position_manager' = b.pm
             /\ pending_sell_orders' = b.sells
             /\ IF current_price # NoPrice /\ pending_exit /\ open # <<>>
                   /\ profitable = DOMAIN open
                THEN /\ Goto(w, "dead")
                     /\ state' = "stopped"
                ELSE /\ Goto(w, "loop")
                     /\ UNCHANGED state
    /\ UNCHANGED <<stop_event, pending_exit, order_type, user_profit_margin,
                   trading_thread, pending_buy_orders, wloc, cpc, cloc, hist_vars,
                   obs_vars>>

\* self.client.get_current_price(self.symbol): a price or None.
B_Tick(w) == \E current_price \in PriceAnswers : B_TickAt(w, current_price)

InitBot ==
    /\ ObsInit
    /\ state = "stopped"
    /\ stop_event = TRUE
    /\ pending_exit = FALSE
    /\ order_type = "limit"
    /\ user_profit_margin = DefaultMargin
    /\ trading_thread = NoWorker
    /\ pending_buy_orders = EmptyDict
    /\ pending_sell_orders = EmptyDict
    /\ position_manager = PmInit
    /\ \E usdt \in StartBalances :
          simulator = [SimInit EXCEPT !.balances.USDT = usdt]
    /\ wpc = [w \in Workers |-> "dead"]
    /\ wloc = [w \in Workers |-> LocInit]
    /\ cpc = "idle"
    /\ cloc = CLocInit
    /\ ledger_applied = [o \in 1..MaxBotOrders |-> 0]
    /\ last_sell = NoSell
    /\ fs_positions = PmInit

NextBot ==
    \/ B_Start
    \/ B_Stop
    \/ B_ForceStop
    \/ \E w \in Workers : B_LoopTest(w)
    \/ \E w \in Workers : B_Tick(w)

SpecBot == InitBot /\ [][NextBot]_vars

\* The legacy bot with a worker that keeps running (the thread is scheduled
\* while it has a step to take) and a price feed that answers again and again.
SpecBotLive ==
    /\ SpecBot
    /\ \A w \in Workers : WF_vars(B_LoopTest(w))
    /\ \A w \in Workers : SF_vars(\E current_price \in Prices : B_TickAt(w, current_price))

\* ------------------------------------------------- the ledger on its own
\* The position ledger driven directly: positions are added and closed (in
\* full, in part, again) in any order and should_buy_more is asked at any
\* price.  The clock that stamps a new position never runs backwards and may
\* give the reading it gave before.
MaxPositions == 3
MaxClock == 2
\* How often one position is closed (in part, in full, again).
MaxCloses == 2
LedgerBuyPrices == {10000, 10100}
LedgerAmounts == {3}
LedgerAmountsSold == {NoAmount, 2, 3}
LedgerExitPrices == {10100}
\* Prices on both sides of the 0.5 % trigger below each buy price.
LedgerAskPrices == {9950, 9951, 10049, 10050}

L_AddPosition ==
    /\ Len(position_manager.objs) < MaxPositions
    /\ \E buy_price \in LedgerBuyPrices, amount \in LedgerAmounts,
          timestamp \in 1..MaxClock :
          /\ timestamp >= LastStamp(position_manager)
          /\ position_manager' = add_position(position_manager, buy_price, amount,
                                              NoOrder, timestamp)
          /\ ledger_call' = [op |-> "add_position"]
    /\ UNCHANGED <<engine_vars, book_vars, simulator, thread_vars, hist_vars,
                   status, status_seen, call_ret, issued,
                   tick_mark, sell_tries, skipped>>

L_ClosePosition ==
    /\ \E p \in DOMAIN position_manager.objs, exit_price \in LedgerExitPrices,
          amount_sold \in LedgerAmountsSold :
          LET c == close_position_sold(position_manager, p, exit_price, amount_sold)
          IN /\ position_manager.objs[p].exit_timestamp < MaxCloses
             /\ position_manager' = c.pm
             /\ ledger_call' = [op |-> "close_position", position |-> p,
                                exit_price |-> exit_price,
                                amount_sold |-> amount_sold, raised |-> c.raised]
    /\ UNCHANGED <<engine_vars, book_vars, simulator, thread_vars, hist_vars,
                   status, status_seen, call_ret, issued,
                   tick_mark, sell_tries, skipped>>

L_ShouldBuyMore ==
    /\ \E current_price \in LedgerAskPrices :
          ledger_call' =
             [op |-> "should_buy_more", current_price |-> current_price,
              answer |-> should_buy_more(position_manager, current_price),
              bot_answer |-> bot_should_buy_more(OpenPositions(position_manager),
                                                 current_price)]
    /\ UNCHANGED <<engine_vars, book_vars, position_manager, simulator, thread_vars,
                   hist_vars, status, status_seen, call_ret, issued,
                   tick_mark, sell_tries, skipped>>

LedgerNext ==
    \/ L_AddPosition
    \/ L_ClosePosition
    \/ L_ShouldBuyMore

SpecLedger == Init /\ [][LedgerNext]_vars

\* ------------------------------------------------------------------ claims
\* The order ids that have a pending record.
Records == (DOMAIN pending_buy_orders) \cup (DOMAIN pending_sell_orders)

\* A step in which force_stop returns (the join is over).
ForceStopReturns == cpc = "fs_join" /\ cpc' = "idle"

\* A step of force_stop: only force_stop moves the control thread's position
\* or changes its locals.
ForceStopStep == cpc' # cpc \/ cloc' # cloc

FilledLimitOrders(s) ==
    {o \in DOMAIN s.orders : s.orders[o].type = "limit" /\ s.orders[o].status = "closed"}

\* C1: reconciliation changes the ledger for an order's fill at most once, and
\* an order whose fill has been applied has no pending record any more.
C1_FillAppliedAtMostOnce ==
    \A o \in DOMAIN ledger_applied :
        /\ ledger_applied[o] <= 1
        /\ ledger_applied[o] >= 1 => o \notin Records

\* C2: when force_stop returns and the worker has ended, every limit order
\* that filled at the gateway has been applied to the ledger exactly once.
C2_RacingFillAppliedExactlyOnce ==
    [][ForceStopReturns /\ LiveWorkers = {} =>
          \A o \in FilledLimitOrders(simulator) : ledger_applied[o] = 1]_vars

\* C3: a sell made by the exit check (pending_exit set) fills at or above the
\* required sell price of the position it sells.
C3_ExitSellAtRequiredPrice ==
    last_sell.made /\ last_sell.exit =>
        last_sell.fill_price >=
            calculate_required_sell_price(last_sell.buy_price, last_sell.margin)

\* C4: the worker leaves the loop through the exit check's break only when
\* the ledger has no open position.
C4_ExitOnlyWithoutOpenPositions ==
    \A w \in Workers :
        wpc[w] = "finally" /\ wloc[w].why = "break" =>
            position_manager.positions = <<>>

\* C5: when force_stop returns the state is STOPPED, no pending record is
\* left and no order is open at the gateway.
C5_ForceStopLeavesNothingPending ==
    [][ForceStopReturns =>
          /\ state' = "stopped"
          /\ Records' = {}
          /\ \A o \in DOMAIN simulator'.orders : simulator'.orders[o].status # "open"]_vars

\* C6 (as stated): the ledger when force_stop returns is the ledger when it
\* was called.
C6_LedgerAtReturnAsAtCall ==
    [][ForceStopReturns => position_manager' = fs_positions]_vars

\* C6 (amended): no step of force_stop itself adds, closes or modifies a
\* position.
C6_ForceStopStepsKeepLedger ==
    [][ForceStopStep => position_manager' = position_manager]_vars

C6_Witness ==
    /\ cpc = "fs_join"
    /\ position_manager.positions # <<>>
    /\ \E o \in DOMAIN simulator.orders : simulator.orders[o].status = "cancelled"

\* C7: every position in the ledger was added by reconciliation, on the
\* observed fill of the buy order it was made for.
C7_PositionOnlyOnObservedFill ==
    \A i \in DOMAIN position_manager.objs :
        ledger_applied[position_manager.objs[i].src] >= 1

\* C8: a reconciliation step that adds a position for a filled buy order
\* leaves exactly one pending sell record for that position, at the required
\* sell price of the fill price.
C8_BuyFillRegistersOneSell ==
    [][\A w \in Workers :
          /\ wpc[w] = "apply_buy"
          /\ wpc'[w] # "apply_buy"
          /\ Len(position_manager'.objs) > Len(position_manager.objs)
          => LET p == Len(position_manager'.objs)
                 target == calculate_required_sell_price(
                               position_manager'.objs[p].buy_price, user_profit_margin)
             IN Cardinality({id \in DOMAIN pending_sell_orders' :
                    /\ pending_sell_orders'[id].position = p
                    /\ pending_sell_orders'[id].target_price = target}) = 1]_vars

\* C9: every order open at the gateway has a record, in one map only; a
\* record is of an order that is open or filled; a record goes only in a step
\* that leaves its order filled or cancelled, a reconciliation step for a
\* filled order takes the order's record away, and a step that takes the
\* record of a cancelled order away leaves the ledger as it is.
C9_RecordsInvariant ==
    /\ \A o \in DOMAIN simulator.orders :
           simulator.orders[o].status = "open" => o \in Records
    /\ \A o \in Records : get_order_status(simulator, o) \in {"open", "closed"}
    /\ (DOMAIN pending_buy_orders) \cap (DOMAIN pending_sell_orders) = {}

C9_RecordRemoval ==
    /\ \A o \in Records \ Records' :
           /\ get_order_status(simulator', o) \in {"closed", "cancelled"}
           /\ get_order_status(simulator', o) = "cancelled" =>
                  position_manager' = position_manager
    /\ \A w \in Workers :
           wpc[w] \in {"apply_buy", "apply_sell"} /\ wpc'[w] # wpc[w] =>
               wloc[w].oid \notin Records'

C9_OneRecordPerOutstandingOrder ==
    []C9_RecordsInvariant /\ [][C9_RecordRemoval]_vars

\* C10: once the state is ERROR it stays ERROR.
C10_ErrorUntilReset == [][state = "error" => state' = "error"]_vars

\* The workers that are executing ticks of the trading loop.
TickingWorkers == {w \in Workers : wpc[w] \notin {"dead", "except", "finally"}}

\* C13: at most one worker loop is executing ticks at any time, whatever the
\* start_trading, stop_trading and force_stop calls made so far.
C13_AtMostOneWorkerLoop == Cardinality(TickingWorkers) <= 1

\* A step that no live worker takes: a step of the thread making the calls.
ControlStep ==
    \A w \in LiveWorkers : wpc'[w] = wpc[w] /\ wloc'[w] = wloc[w]

\* C14: while a worker loop exists, no step of the thread making the calls
\* writes the balances, the pending-order maps or the ledger.
C14_OnlyWorkerMutates ==
    [][ControlStep /\ LiveWorkers # {} =>
          /\ simulator'.balances = simulator.balances
          /\ pending_buy_orders' = pending_buy_orders
          /\ pending_sell_orders' = pending_sell_orders
          /\ position_manager' = position_manager]_vars

\* How often p is in the list s.
Count(s, p) == Cardinality({i \in DOMAIN s : s[i] = p})

\* C19: nothing a step does changes a position that is closed: its record
\* (exit price, status, amount) and its place in the two collections stay,
\* and a step that would close it again leaves the balances alone.
C19_ClosedPositionUntouched ==
    [][\A p \in DOMAIN position_manager.objs :
          position_manager.objs[p].status = "closed" =>
              /\ position_manager'.objs[p] = position_manager.objs[p]
              /\ Count(position_manager'.positions, p)
                     = Count(position_manager.positions, p)
              /\ Count(position_manager'.closed_positions, p)
                     = Count(position_manager.closed_positions, p)
              /\ (\E w \in Workers : wpc[w] = "apply_sell" /\ wpc'[w] # "apply_sell"
                                         /\ wloc[w].posref = p)
                    => simulator'.balances = simulator.balances]_vars

\* The limit orders a step fills.
NewlyFilled ==
    {o \in DOMAIN simulator.orders :
        /\ simulator.orders[o].type = "limit"
        /\ simulator.orders[o].status = "open"
        /\ simulator'.orders[o].status = "closed"}

\* amount * P * (1 + maker fee)
LimitBuyCost(amount, P) == ToUsdt(amount, P) + calculate_fees(ToUsdt(amount, P))

\* C20: a limit buy at price P fills only on a pass whose price (the price
\* the fill is made at) is at most P, a limit sell only on one whose price is
\* at least P, and the fill of a limit buy takes amount * P * (1 + fee) from
\* the quote balance.
C20_LimitFillAtLimitPrice ==
    [][\A o \in NewlyFilled :
          LET P == simulator.orders[o].price
              pass_price == simulator'.orders[o].price
          IN IF simulator.orders[o].side = "buy"
             THEN /\ pass_price <= P
                  /\ NewlyFilled = {o} =>
                         simulator.balances.USDT - simulator'.balances.USDT
                            = LimitBuyCost(simulator.orders[o].amount, P)
             ELSE pass_price >= P]_vars

\* shouldBuyMore as stated: true without an open position, else whether the
\* price is at most lastBuyPrice * (1 - trigger/100), lastBuyPrice being the
\* buy price of the open position opened last (the last of the list).
ShouldBuyMoreStated(pm, current_price) ==
    \/ pm.positions = <<>>
    \/ current_price * 1000
          <= pm.objs[pm.positions[Len(pm.positions)]].buy_price
                * (1000 - BuyTriggerPermille)

\* C17 for PositionManager.should_buy_more.
C17_PositionManagerAnswer ==
    [][ledger_call'.op = "should_buy_more" =>
          ledger_call'.answer
             = ShouldBuyMoreStated(position_manager, ledger_call'.current_price)]_vars

\* C17 for TradingBot._should_buy_more.
C17_TradingBotAnswer ==
    [][ledger_call'.op = "should_buy_more" =>
          ledger_call'.bot_answer
             = ShouldBuyMoreStated(position_manager, ledger_call'.current_price)]_vars

\* C17: shouldBuyMore answers as stated, in the ledger and in the bot.
C17_ShouldBuyMoreAsStated ==
    [][ledger_call'.op = "should_buy_more" =>
          LET stated == ShouldBuyMoreStated(position_manager,
                                            ledger_call'.current_price)
          IN ledger_call'.answer = stated /\ ledger_call'.bot_answer = stated]_vars

\* C18: closePosition on an open position: with amountSold omitted or at
\* least the amount, the status is closed and the position moves from the
\* open to the closed collection; with less, the amount is reduced by
\* amountSold, the status is partial and the position stays open.
C18_CloseOrPartialClose ==
    [][ledger_call'.op = "close_position"
          /\ ledger_call'.position \in Range(position_manager.positions) =>
          LET p == ledger_call'.position
              sold == ledger_call'.amount_sold
              before == position_manager.objs[p]
              after == position_manager'.objs[p]
          IN IF sold = NoAmount \/ sold >= before.amount
             THEN /\ after.status = "closed"
                  /\ Count(position_manager'.positions, p) = 0
                  /\ Count(position_manager'.closed_positions, p) = 1
             ELSE /\ after.amount = before.amount - sold
                  /\ after.status = "partial"
                  /\ Count(position_manager'.positions, p) = 1
                  /\ Count(position_manager'.closed_positions, p) = 0]_vars

\* A partial close has just been made on a ledger that also holds a fully
\* closed position.
C18_Witness ==
    /\ ledger_call.op = "close_position"
    /\ ledger_call.amount_sold # NoAmount
    /\ ~ledger_call.raised
    /\ position_manager.objs[ledger_call.position].status = "partial"
    /\ ledger_call.position \in Range(position_manager.positions)
    /\ position_manager.closed_positions # <<>>

\* What a start_trading call must leave alone when it returns failure.
StartLeaves ==
    <<state, trading_thread, wpc, stop_event, pending_exit, simulator,
      pending_buy_orders, pending_sell_orders, position_manager>>

\* C11: a start() that returns failure (live API not connected, balance
\* below the minimum, margin not valid, no price, or the initial purchase
\* refused) leaves the engine state as it was (Stopped stays Stopped), starts
\* no worker, submits no order and leaves the ledger unchanged.
C11_FailedStartChangesNothing ==
    [][call_ret' # call_ret /\ call_ret'.op = "start" /\ ~call_ret'.ret =>
          /\ UNCHANGED StartLeaves
          /\ state = "stopped" => state' = "stopped"]_vars

\* A start has just failed on an engine that had traded before: orders or
\* positions exist and none of them was touched.
C11_Witness ==
    /\ call_ret.op = "start"
    /\ ~call_ret.ret
    /\ state = "stopped"
    /\ position_manager.objs # <<>>
    /\ simulator.balances.USDT < MinTradeAmount

\* minimumViableMargin = (buyFee + sellFee) / (1 - sellFee), margins per mille.
BelowMinimumViable(margin) == margin * (1000 - FeeRate) < (FeeRate + FeeRate) * 1000

\* The sell target of the record of order o is the required sell price of
\* its position at the given margin.
TargetMadeWith(sells, pm, o, margin) ==
    sells[o].target_price
       = calculate_required_sell_price(pm.objs[sells[o].position].buy_price, margin)

\* C16: setProfitMargin rejects every margin below minimumViableMargin and a
\* rejected call leaves the margin as it was; the margin changes only by an
\* accepted call, to the margin asked for, and every sell target is made
\* with the margin in effect.
C16_RejectedMarginKeepsPrior ==
    [][/\ call_ret' # call_ret /\ call_ret'.op = "set_profit_margin" =>
             /\ BelowMinimumViable(call_ret'.margin) => ~call_ret'.ret
             /\ ~call_ret'.ret => user_profit_margin' = user_profit_margin
       /\ user_profit_margin' # user_profit_margin =>
             /\ call_ret' # call_ret
             /\ call_ret'.op = "set_profit_margin"
             /\ call_ret'.ret
             /\ user_profit_margin' = call_ret'.margin
       /\ \A o \in DOMAIN pending_sell_orders' \ DOMAIN pending_sell_orders :
             TargetMadeWith(pending_sell_orders', position_manager', o,
                            user_profit_margin)]_vars

\* A margin below the minimum has just been rejected while a margin set by
\* an earlier accepted call is in effect and a sell target was made with it.
C16_Witness ==
    /\ call_ret.op = "set_profit_margin"
    /\ ~call_ret.ret
    /\ BelowMinimumViable(call_ret.margin)
    /\ user_profit_margin \notin ConfigMargins
    /\ \E o \in DOMAIN pending_sell_orders :
          TargetMadeWith(pending_sell_orders, position_manager, o, user_profit_margin)

\* What a returned status says, as an observation.
StatusResult ==
    [state |-> status.state,
     pending_exit |-> status.pending_exit,
     USDT |-> status.USDT,
     BTC |-> status.BTC,
     count |-> status.count,
     buy_orders |-> status.buy_orders,
     sell_orders |-> status.sell_orders]

\* C15: what getStatus() returns is the state, pendingExit flag, balances,
\* open-position count and pending buy and sell counts of one single state
\* the system was in during the call.
C15_StatusIsOneState == status.at = "returned" => StatusResult \in status_seen

\* The configured fraction of a quote balance.
InitialFraction(usdt) == (usdt * InitialFractionPct) \div 100

\* C12 for TradingEngine.start_trading: a start that returns success has
\* submitted a buy order for 95 % of the quote balance it found (a limit
\* order registered with that amount, or a market buy that spent it).
C12_EngineStartHasBought ==
    [][call_ret' # call_ret /\ call_ret'.op = "start" /\ call_ret'.ret =>
          \E id \in DOMAIN simulator'.orders \ DOMAIN simulator.orders :
             /\ simulator'.orders[id].side = "buy"
             /\ IF order_type = "limit"
                THEN /\ id \in DOMAIN pending_buy_orders'
                     /\ pending_buy_orders'[id].amount_usdt
                           = InitialFraction(simulator.balances.USDT)
                ELSE simulator.balances.USDT - simulator'.balances.USDT
                        = InitialFraction(simulator.balances.USDT)]_vars

\* C12: whenever start() returns success an initial buy order has already
\* been submitted to the gateway (TradingBot.start).
C12_BotStartHasBought ==
    [][call_ret' # call_ret /\ call_ret'.op = "bot_start" /\ call_ret'.ret =>
          \E id \in DOMAIN simulator'.orders \ DOMAIN simulator.orders :
             simulator'.orders[id].side = "buy"]_vars

\* Worker w's price fetch fails in this step.
FetchFails(w) == wpc[w] = "price" /\ wpc'[w] = "loop"

\* C30 as stated: on a tick whose price fetch fails no order is submitted
\* (the gateway has issued no order id since the tick began).
C30_NoOrderOnTickOfFailedFetch ==
    [][\A w \in Workers :
          FetchFails(w) => simulator.order_id_counter = tick_mark[w]]_vars

\* C30: the failed price fetch itself changes neither the engine state nor
\* the pendingExit flag, the ledger, the gateway or the pending records, and
\* the worker goes back to the loop test, where the fetch is made again.
C30_FailedFetchChangesNothing ==
    [][\A w \in Workers :
          FetchFails(w) =>
             /\ UNCHANGED <<state, pending_exit, stop_event, position_manager,
                            simulator, pending_buy_orders, pending_sell_orders>>
             /\ wpc'[w] = "loop"]_vars

\* A fetch has just failed on a tick whose reconciliation had submitted a
\* sell order, and the engine is still running.
C30_Witness ==
    \E w \in Workers :
       /\ wpc[w] = "loop"
       /\ wloc[w].why = "no_price"
       /\ state = "running"
       /\ simulator.order_id_counter > tick_mark[w]
       /\ tick_mark[w] > 0
       /\ position_manager.positions # <<>>

\* ------------------------------------------- core/simulator.py, driven alone
\* The gateway's operations called in any order by a client.  issued grows by
\* each order id handed out, skipped by each order a fill pass left open
\* although its price condition was met.
MaxIssued == 4

GatewayQuote == 30 * UsdtScale
GatewayBase == ToBtc(GatewayQuote, 10000)

\* reset_simulation
reset_simulation(s) ==
    [s EXCEPT !.balances = SimInit.balances,
              !.orders = EmptyDict,
              !.pending_orders = <<>>,
              !.order_id_counter = 1]

InitGateway ==
    /\ ObsInit
    /\ FreshEngine
    /\ order_type = "limit"
    /\ user_profit_margin = DefaultMargin
    /\ simulator = SimInit

GatewayFrame ==
    UNCHANGED <<engine_vars, book_vars, position_manager, thread_vars, hist_vars,
                status, status_seen, call_ret, tick_mark, sell_tries>>

GatewayReturn(op, r) ==
    /\ simulator' = r.sim
    /\ issued' = IF r.order = NoOrder THEN issued ELSE Append(issued, r.order)
    /\ ledger_call' = [op |-> op, n |-> 1 - ledger_call.n, order |-> r.order]
    /\ UNCHANGED skipped
    /\ GatewayFrame

G_LimitBuy ==
    /\ Len(issued) < MaxIssued
    /\ \E price \in Prices :
          GatewayReturn("simulate_limit_buy",
                        simulate_limit_buy(simulator, GatewayBase, price))

G_LimitSell ==
    /\ Len(issued) < MaxIssued
    /\ \E price \in Prices :
          GatewayReturn("simulate_limit_sell",
                        simulate_limit_sell(simulator, GatewayBase, price))

G_MarketBuy ==
    /\ Len(issued) < MaxIssued
    /\ \E current_price \in PriceAnswers :
          GatewayReturn("simulate_market_buy",
                        simulate_market_buy(simulator, GatewayQuote, current_price))

G_MarketSell ==
    /\ Len(issued) < MaxIssued
    /\ \E current_price \in PriceAnswers :
          GatewayReturn("simulate_market_sell",
                        simulate_market_sell(simulator, GatewayBase, current_price))

G_Cancel ==
    /\ \E order_id \in DOMAIN simulator.orders :
          /\ simulator' = cancel_order(simulator, order_id)
          /\ ledger_call' = [op |-> "cancel_order", n |-> 1 - ledger_call.n,
                             order |-> order_id]
    /\ UNCHANGED <<issued, skipped>>
    /\ GatewayFrame

\* The orders a pass at current_price has left open with their condition met.
LeftOpen(s, current_price) ==
    {id \in Range(s.pending_orders) : ShouldFill(s.orders[id], current_price)}

G_Fill ==
    /\ \E current_price \in PriceAnswers :
          /\ simulator' = check_and_fill_orders(simulator, current_price)
          /\ ledger_call' = [op |-> "check_and_fill_orders", n |-> 1 - ledger_call.n,
                             current_price |-> current_price]
          /\ skipped' = IF current_price = NoPrice THEN skipped
                        ELSE skipped \cup LeftOpen(simulator', current_price)
    /\ UNCHANGED issued
    /\ GatewayFrame

G_Reset ==
    /\ simulator' = reset_simulation(simulator)
    /\ ledger_call' = [op |-> "reset_simulation", n |-> 1 - ledger_call.n]
    /\ skipped' = {}
    /\ UNCHANGED issued
    /\ GatewayFrame

NextGateway ==
    \/ G_LimitBuy
    \/ G_LimitSell
    \/ G_MarketBuy
    \/ G_MarketSell
    \/ G_Cancel
    \/ G_Fill
    \/ G_Reset

SpecGateway == InitGateway /\ [][NextGateway]_vars

\* What filling order o at price p takes from the balances, and whether the
\* balances hold it.
Affords(s, o, p) ==
    IF o.side = "buy"
    THEN s.balances.USDT >= ToUsdt(o.amount, p) + calculate_fees(ToUsdt(o.amount, p))
    ELSE s.balances.BTC >= o.amount

FillPassAt(p) ==
    /\ ledger_call' # ledger_call
    /\ ledger_call'.op = "check_and_fill_orders"
    /\ ledger_call'.current_price = p

StaysPending(id) ==
    /\ simulator'.orders[id] = simulator.orders[id]
    /\ id \in Range(simulator'.pending_orders)

\* C21: in a fill pass every pending order is afterwards either filled
\* (closed, no longer pending) or exactly as it was and still pending; the
\* first pending order whose price condition is met fills when the balances
\* afford it and otherwise stays open and pending; a pass that fills nothing
\* leaves the balances and everything else of the gateway unchanged; no
\* balance ever goes below zero.
C21_SkippedFillKeepsOrderPending ==
    [][\A p \in Prices :
          FillPassAt(p) =>
             /\ \A id \in Range(simulator.pending_orders) :
                   \/ StaysPending(id)
                   \/ /\ simulator'.orders[id].status = "closed"
                      /\ id \notin Range(simulator'.pending_orders)
                      /\ ShouldFill(simulator.orders[id], p)
             /\ simulator.pending_orders # <<>> =>
                   LET id == Head(simulator.pending_orders)
                       o == simulator.orders[id]
                   IN ShouldFill(o, p) =>
                         IF Affords(simulator, o, p)
                         THEN simulator'.orders[id].status = "closed"
                         ELSE StaysPending(id)
             /\ (\A id \in Range(simulator.pending_orders) : StaysPending(id))
                   => simulator' = simulator
             /\ simulator'.balances.USDT >= 0
             /\ simulator'.balances.BTC >= 0]_vars

\* An order whose fill an earlier pass skipped has since been filled.
C21_Witness ==
    \E id \in skipped :
       /\ id \in DOMAIN simulator.orders
       /\ simulator.orders[id].status = "closed"
       /\ ledger_call.op = "check_and_fill_orders"

\* C22: no order id is issued twice.
C22_OrderIdsNeverReused ==
    \A i, j \in DOMAIN issued : i # j => issued[i] # issued[j]

\* ------------------------------------------- utils/helpers.py, called alone
\* The profit helpers as pure functions, one call in a behaviour.  Rates are integers out of a scale
\* (100: per cent, 1000: per mille).  Quotients are taken digit by digit.
RECURSIVE LongDiv(_, _, _)
LongDiv(N, D, k) ==
    IF k = 0 THEN [q |-> N \div D, r |-> N % D]
    ELSE LET p == LongDiv(N, D, k - 1)
         IN [q |-> p.q * 10 + (p.r * 10) \div D, r |-> (p.r * 10) % D]

required_sell_price_feeless(buy_price, margin, fb, fs, scale, digits) ==
    LongDiv(buy_price * (scale + margin), scale * scale, digits)

required_sell_price_single_fee(buy_price, margin, fb, fs, scale, digits) ==
    LongDiv(buy_price * (scale + margin), (scale - fb) * scale, digits)

\* calculate_required_sell_price: buy/(1-fb) * (1+m) / (1-fs) = N * scale / D,
\* to `digits - Log10(scale)` decimal places: q the places kept, r what is
\* left of the division (0 when the value is exact at that precision).
required_sell_price(buy_price, margin, fb, fs, scale, digits) ==
    LongDiv(buy_price * (scale + margin), (scale - fb) * (scale - fs), digits)

\* The value a float holds is the exact one rounded: to the nearest place.
Nearest(v, fb, fs, scale) ==
    v.q + (IF 2 * v.r >= (scale - fb) * (scale - fs) THEN 1 ELSE 0)

\* calculate_limit_order_profit(...)['profit_margin'] >= (margin - slack)/scale
\* for a sell price of sell/1000, decided by cross-multiplication: rates per
\* cent, slack in thousandths of the sell price's unit.  The margin is 0 when
\* net_buy_cost is not positive.
profit_margin_at_least(buy_price, sell, amount, fb, fs, margin, slack) ==
    IF buy_price * amount * (100 + fb) > 0
    THEN (sell + slack) * (100 - fs) * 100 >= buy_price * 1000 * (100 + fb) * (100 + margin)
    ELSE 0 >= margin

M_RequiredSellPrice ==
    /\ ledger_call = NoCall
    /\ \E buy_price \in {50000, 10000, 9990}, margin \in 0..9, fb \in 0..2, fs \in 0..2 :
          ledger_call' =
             [op |-> "calculate_required_sell_price", n |-> 1 - ledger_call.n,
              buy_price |-> buy_price, margin |-> margin, fb |-> fb, fs |-> fs,
              cents |-> Nearest(required_sell_price(buy_price, margin, fb, fs, 1000, 5),
                                fb, fs, 1000)]
    /\ UNCHANGED <<simulator, issued, skipped>>
    /\ GatewayFrame

\* requiredSellPrice, held to three decimal places and rounded either way,
\* handed to profitBreakdown.
M_LimitOrderProfit ==
    /\ ledger_call = NoCall
    /\ \E buy_price \in {99, 100, 101}, amount \in 0..2, margin \in 0..5,
          fb \in 0..2, fs \in 0..2, up \in BOOLEAN :
          LET v == required_sell_price(buy_price, margin, fb, fs, 100, 5)
              sell == v.q + (IF up /\ v.r > 0 THEN 1 ELSE 0)
          IN ledger_call' =
                [op |-> "calculate_limit_order_profit", n |-> 1 - ledger_call.n,
                 buy_price |-> buy_price, amount |-> amount, margin |-> margin,
                 fb |-> fb, fs |-> fs, sell |-> sell, exact |-> v.r = 0 \/ up,
                 viable |-> margin * (100 - fs) >= (fb + fs) * 100,
                 at_least |-> profit_margin_at_least(buy_price, sell, amount,
                                                     fb, fs, margin, 0),
                 nearly |-> profit_margin_at_least(buy_price, sell, amount,
                                                   fb, fs, margin, 1)]
    /\ UNCHANGED <<simulator, issued, skipped>>
    /\ GatewayFrame

NextMath ==
    \/ M_RequiredSellPrice
    \/ M_LimitOrderProfit

SpecMath == InitGateway /\ [][NextMath]_vars

ProfitCall == ledger_call.op = "calculate_limit_order_profit"

\* C23 as stated: at every viable margin m the realized margin is at least m.
C23_MarginAtLeastDesired ==
    ProfitCall /\ ledger_call.viable => ledger_call.at_least

\* C23: for a positive amount and a viable margin m, the realized margin at
\* the required sell price is at least m less one unit in the last place of
\* the sell price, and at least m when the sell price is not rounded down.
C23_MarginNearlyDesired ==
    ProfitCall /\ ledger_call.viable /\ ledger_call.amount > 0 =>
       /\ ledger_call.nearly
       /\ ledger_call.exact => ledger_call.at_least

\* A positive amount at a viable margin with no buy fee, the sell price
\* rounded down: the realized margin falls short of m by the rounding only.
C23_Witness ==
    /\ ProfitCall
    /\ ledger_call.viable
    /\ ledger_call.amount > 0
    /\ ledger_call.fb = 0
    /\ ledger_call.margin > 0
    /\ ~ledger_call.exact
    /\ ~ledger_call.at_least
    /\ ledger_call.nearly

C24_Case ==
    /\ ledger_call.op = "calculate_required_sell_price"
    /\ ledger_call.buy_price = 50000
    /\ ledger_call.margin = 5
    /\ ledger_call.fb = 1
    /\ ledger_call.fs = 1

\* C24 as stated: the scenario's required sell price is 50,652.16.
C24_ScenarioAsStated == C24_Case => ledger_call.cents = 5065216

\* C24: requiredSellPrice(50000, 0.005, 0.001, 0.001) is
\* 50000/0.999 * 1.005/0.999 = 50,350.65 to the cent.
C24_ScenarioValue == C24_Case => ledger_call.cents = 5035065

C24_Witness == C24_Case /\ ledger_call.cents = 5035065

\* The bot's gateway issues its first order, a buy, from a balance of 50 with
\* no open position.
FirstBuyAtFifty ==
    /\ simulator.order_id_counter = 1
    /\ simulator.balances.USDT = 50 * UsdtScale
    /\ position_manager.positions = <<>>
    /\ 1 \in DOMAIN simulator'.orders
    /\ simulator'.orders[1].side = "buy"

\* C25: with a quote balance of 50 and no open position the next buy is
\* sized at 15 (the order's size is 15 / its price).
C25_FirstBuyIsFifteen ==
    [][FirstBuyAtFifty =>
          simulator'.orders[1].size = ToBtc(15 * UsdtScale, simulator'.orders[1].price)]_vars

\* C27: every position that is not closed has a positive amount, and every
\* position the ledger has ever held has a positive buy price.
C27_PositionAmountsAndPricesPositive ==
    \A p \in DOMAIN position_manager.objs :
       /\ position_manager.objs[p].buy_price > 0
       /\ position_manager.objs[p].status # "closed" =>
             position_manager.objs[p].amount > 0

\* The engine's ledger holds an open position and a closed one.
C27_Witness ==
    /\ \E p \in Range(position_manager.positions) :
          position_manager.objs[p].status # "closed"
    /\ \E p \in Range(position_manager.closed_positions) :
          position_manager.objs[p].status = "closed"
    /\ state = "running"

\* The bot's tick that ends the loop with pendingExit set: every open
\* position was found clearable at the fetched price.
ExitTickEnds(w) == wpc[w] = "tick" /\ wpc'[w] = "dead" /\ pending_exit

\* C28: on that tick a sell is submitted for each of the clearable positions
\* (the gateway has a new sell order for it).
C28_ExitTickSellsClearable ==
    [][\A w \in Workers :
          ExitTickEnds(w) =>
             \A q \in Range(position_manager'.positions) :
                \E id \in (DOMAIN simulator'.orders) \ (DOMAIN simulator.orders) :
                   /\ simulator'.orders[id].side = "sell"
                   /\ id \in DOMAIN pending_sell_orders'
                   /\ pending_sell_orders'[id].position = q]_vars

\* ------------------------------------------ the engine with funds for two buys
\* risk.max_open_positions as configured (the default is 5); 1 here, with a
\* balance that pays for a second buy after the initial purchase.
max_open_positions == 1
FundsBalance == 400 * UsdtScale

InitFunds == ObsInit /\ (FreshEngineWith({FundsBalance}) \/ StoppedEngine)

SpecFunds == InitFunds /\ [][NextCalls]_vars

\* A worker's tick, past its price fetch, submits a buy: the gateway issues
\* an order id that the engine files among its pending buys or (market) that
\* is a buy.
TickBuys(w) ==
    /\ wpc[w] = "price"
    /\ wpc'[w] # "price"
    /\ simulator'.order_id_counter > simulator.order_id_counter
    /\ \E id \in (DOMAIN simulator'.orders) \ (DOMAIN simulator.orders) :
          simulator'.orders[id].side = "buy"

\* C29: a tick submits a buy only with pendingExit not set and fewer open
\* positions than the configured maximum.
C29_BuyOnlyBelowMaximum ==
    [][\A w \in Workers :
          TickBuys(w) =>
             /\ ~pending_exit
             /\ Len(position_manager.positions) < max_open_positions]_vars

\* ------------------------------------------------ reset_bot, a control call
\* reset_bot in three steps of the calling thread: force_stop() when the
\* state is RUNNING (the stop flag is set, the pending orders are cancelled at
\* the gateway and their records deleted, the join gives up after its
\* timeout with the worker possibly still in its tick); then the pending
\* records and the ledger are cleared; then the simulation is reset.
MaxResets == 1

RECURSIVE CancelAll(_, _)
CancelAll(s, ids) ==
    IF ids = <<>> THEN s ELSE CancelAll(cancel_order(s, Head(ids)), Tail(ids))

NotCancelled(d) == [id \in {i \in DOMAIN d : ~CanCancel(simulator, i)} |-> d[id]]

R_ForceStop ==
    /\ cpc = "idle"
    /\ ledger_call.n < MaxResets
    /\ cpc' = "rs_clear"
    /\ IF state = "running"
       THEN /\ state' = "stopped"
            /\ stop_event' = TRUE
            /\ simulator' = CancelAll(simulator,
                               SortedSeq(DOMAIN pending_buy_orders)
                                  \o SortedSeq(DOMAIN pending_sell_orders))
            /\ pending_buy_orders' = NotCancelled(pending_buy_orders)
            /\ pending_sell_orders' = NotCancelled(pending_sell_orders)
       ELSE UNCHANGED <<state, stop_event, simulator, book_vars>>
    /\ UNCHANGED <<pending_exit, order_type, user_profit_margin, trading_thread,
                   position_manager, wpc, wloc, cloc, hist_vars, obs_vars>>

R_Clear ==
    /\ cpc = "rs_clear"
    /\ cpc' = "rs_sim"
    /\ pending_buy_orders' = EmptyDict
    /\ pending_sell_orders' = EmptyDict
    /\ position_manager' = clear_all_positions(position_manager)
    /\ UNCHANGED <<engine_vars, simulator, wpc, wloc, cloc, hist_vars, obs_vars>>

R_ResetSimulation ==
    /\ cpc = "rs_sim"
    /\ cpc' = "idle"
    /\ simulator' = reset_simulation(simulator)
    /\ ledger_call' = [op |-> "reset_bot", n |-> ledger_call.n + 1]
    /\ UNCHANGED <<engine_vars, book_vars, position_manager, wpc, wloc, cloc,
                   hist_vars, status, status_seen, call_ret, issued, tick_mark, sell_tries,
                   skipped>>

InitReset ==
    /\ ObsInit
    /\ FreshEngineWith({InitialBalance})
    /\ user_profit_margin = DefaultMargin

\* start_trading, called only before the reset.
R_Start ==
    /\ ledger_call = NoCall
    /\ cpc = "idle"
    /\ C_StartCall

NextReset ==
    \/ \E w \in Workers : Worker(w)
    \/ R_Start
    \/ C_Stop
    \/ R_ForceStop
    \/ R_Clear
    \/ R_ResetSimulation

SpecReset == InitReset /\ [][NextReset]_vars

ResetReturns == cpc = "rs_sim" /\ cpc' = "idle"

\* C26: when reset returns the ledger has no open position, both
\* pending-order maps are empty and the gateway's balances are the initial
\* ones.
C26_ResetLeavesEngineClean ==
    [][ResetReturns =>
          /\ position_manager'.positions = <<>>
          /\ pending_buy_orders' = EmptyDict
          /\ pending_sell_orders' = EmptyDict
          /\ simulator'.balances = SimInit.balances]_vars

\* A worker's tick ends (the fills, then the sleep) in limit mode with the
\* engine running and no stop asked for.
LimitTickEnds(w) ==
    /\ wpc[w] = "fill"
    /\ wpc'[w] = "loop"
    /\ order_type = "limit"
    /\ state = "running"
    /\ ~pending_exit

HasSellRecord(p) ==
    \E id \in DOMAIN pending_sell_orders : pending_sell_orders[id].position = p

\* C31: an order the gateway refused is attempted again on the next tick on
\* which its condition still holds: when a tick of the limit-order loop ends,
\* every open position that has no resting sell registered had its sell asked
\* of the gateway during that tick.
C31_RefusedSellIsRetried ==
    [][\A w \in Workers :
          (LimitTickEnds(w) /\ tick_mark[w] # 0) =>
             \A p \in Range(position_manager.positions) :
                HasSellRecord(p) \/ p \in sell_tries]_vars

RECURSIVE SumAmounts(_, _)
SumAmounts(pm, ps) ==
    IF ps = <<>> THEN 0 ELSE pm.objs[Head(ps)].amount + SumAmounts(pm, Tail(ps))

\* C32: the open positions' amounts add up to no more than the gateway's
\* base-currency balance.
C32_OpenAmountsWithinBaseBalance ==
    SumAmounts(position_manager, position_manager.positions) <= simulator.balances.BTC


RECURSIVE SumCosts(_, _)
SumCosts(buys, ids) ==
    IF ids = {} THEN 0
    ELSE LET id == CHOOSE x \in ids : TRUE
         IN buys[id].amount_usdt + SumCosts(buys, ids \ {id})

\* C33: the costs of the buy orders still resting unfilled add up to no more
\* than the gateway's quote balance.
C33_RestingBuysWithinQuoteBalance ==
    SumCosts(pending_buy_orders,
             {id \in DOMAIN pending_buy_orders : simulator.orders[id].status = "open"})
       <= simulator.balances.USDT


SellFills(id) ==
    /\ id \in DOMAIN simulator.orders
    /\ simulator.orders[id].side = "sell"
    /\ simulator.orders[id].status = "open"
    /\ simulator'.orders[id].status = "closed"

\* C34: a resting limit sell registered for a position fills at the gateway
\* only while that position is still open in the ledger (a position closed by
\* a market sell is not sold a second time).
C34_NoSellFillsForClosedPosition ==
    [][\A id \in DOMAIN pending_sell_orders :
          SellFills(id) =>
             position_manager.objs[pending_sell_orders[id].position].status = "open"]_vars


RestingSellOfClosedPosition ==
    \E id \in DOMAIN pending_sell_orders :
       /\ id \in DOMAIN simulator.orders
       /\ simulator.orders[id].status = "open"
       /\ position_manager.objs[pending_sell_orders[id].position].status = "closed"


GracefulStopCompletes(w) ==
    /\ wpc[w] = "finally"
    /\ wloc[w].why = "break"
    /\ wpc'[w] = "dead"

\* C35: when a graceful stop completes (the loop broke out of the exit check
\* and the engine becomes stopped), both pending-order maps are empty and no
\* order is resting open at the gateway.
C35_GracefulStopLeavesNothingResting ==
    [][\A w \in Workers :
          GracefulStopCompletes(w) =>
             /\ DOMAIN pending_buy_orders' = {}
             /\ DOMAIN pending_sell_orders' = {}
             /\ simulator'.pending_orders = <<>>]_vars


\* C36: once a stop has been requested of the running engine and the ledger
\* has no open position, the engine eventually becomes stopped.
C36_StopWithNoPositionEndsStopped ==
    (state = "running" /\ pending_exit /\ position_manager.positions = <<>>)
       ~> (state = "stopped")


Resting(o) == o.status \in {"open", "active"}
Filled(o) == o.status \in {"closed", "filled"}

Fills(id) ==
    /\ id \in DOMAIN simulator'.orders
    /\ Filled(simulator'.orders[id])
    /\ id \in DOMAIN simulator.orders => Resting(simulator.orders[id])

CancelCallOn(id) ==
    /\ ledger_call' # ledger_call
    /\ ledger_call'.op = "cancel_order"
    /\ ledger_call'.order = id

C38_BalancesNeverNegative ==
    /\ simulator.balances.USDT >= 0
    /\ simulator.balances.BTC >= 0

\* The gateway has just refused a market sell for lack of base currency, after
\* having filled, cancelled and left pending at least one order each.
C38_Witness ==
    /\ ledger_call.op = "simulate_market_sell"
    /\ ledger_call.order = NoOrder
    /\ simulator.balances.BTC < GatewayBase
    /\ \E id \in DOMAIN simulator.orders : simulator.orders[id].status = "closed"
    /\ \E id \in DOMAIN simulator.orders : simulator.orders[id].status = "cancelled"
    /\ simulator.pending_orders # <<>>


\* C39: every position in the closed collection has status closed and an
\* exit price, and no position is in both the open and the closed collection.
C39_ClosedCollectionHoldsClosedPositions ==
    /\ \A p \in Range(position_manager.closed_positions) :
          /\ position_manager.objs[p].status = "closed"
          /\ position_manager.objs[p].exit_price # NoPrice
    /\ Range(position_manager.positions)
          \cap Range(position_manager.closed_positions) = {}


\* (fb + fs) / (1 - fs) <= margin, margins and fee rates per mille.
AtLeastMinimumViable(margin) == (FeeRate + FeeRate) * 1000 <= margin * (1000 - FeeRate)

\* C40: whenever the engine is running or stopping, the profit margin in
\* effect is at least the minimum viable margin.
C40_MarginViableWhileActive ==
    state \in {"running", "stopping"} => AtLeastMinimumViable(user_profit_margin)


\* The engine is running on a margin an accepted call set, and the last call
\* was a set_profit_margin that was refused.
C40_Witness ==
    /\ state = "running"
    /\ user_profit_margin = 3
    /\ call_ret.op = "set_profit_margin"
    /\ ~call_ret.ret

====
